---- MODULE Spec2Model ----
(***************************************************************************)
(* A state-machine model of the bandchat server: the socket gateway        *)
(* (socket/handlers.js), the channel access middleware, and the message    *)
(* routes (list, create, edit, delete, search).                            *)
(*                                                                         *)
(* The persistence store (Prisma) is the shared state.  Each request or    *)
(* socket handler is split into steps at the awaits where another handler  *)
(* can observe or change the store in between.                             *)
(***************************************************************************)
EXTENDS Integers, Sequences, FiniteSets, TLC

(***************************************************************************)
(* Static topology: users, workspaces and channels.                        *)
(***************************************************************************)
Users == {"u1", "u2"}

\* a user id that a signed token can still carry although the row is gone
GoneUser == "u9"

Workspaces == {"w1", "w2"}

Channels == {"c1", "c2", "c3"}

\* Channel rows: (workspaceId, isPrivate)
Chan ==
  [c \in Channels |->
     CASE c = "c1" -> [workspaceId |-> "w1", isPrivate |-> FALSE]
       [] c = "c2" -> [workspaceId |-> "w1", isPrivate |-> TRUE]
       [] OTHER    -> [workspaceId |-> "w2", isPrivate |-> FALSE]]

Conns == {"s1", "s2"}

\* the sockets the gateway specification drives
GatewayConns == {"s1"}

\* the requests that can be in flight at once
Slots == {"r1", "r2"}

\* the refresh attempts that can be in flight at once
RefreshCalls == {"a1", "a2"}

VARIABLES
  workspaceMember,  \* WorkspaceMember rows: [userId, workspaceId, role]
  channelMember,    \* ChannelMember rows: <<userId, channelId>>
  conn,             \* per socket: handshake state, user, rooms, handlers
  lastEvent,        \* the last socket event handled: <<event, argument>>
  messages,         \* Message rows
  nextId,           \* the next fresh message id
  clock,            \* the store's now()
  onParentDelete,   \* referential action of Message.parent: Cascade | SetNull
  req,              \* per request slot: the request in flight, if any
  lastResp,         \* the HTTP response the last step sent, if any
  emitted,          \* the socket events the last step emitted, in order
  pushCalls,        \* the users the last step called sendPushToUser for
  listResp,         \* the last GET /messages/channel/:channelId and its response
  walk,             \* a client paging through a channel with nextCursor
  searchResp,       \* the last GET /messages/search/:workspaceId and its response
  vapid,            \* process.env.VAPID_PUBLIC_KEY is set
  pushSubscription, \* PushSubscription rows: [id, userId, endpoint]
  nextSubId,        \* the next fresh PushSubscription id
  push,             \* per user: the sendPushToUser call that is tracked
  lastRead,         \* ChannelMember.lastRead of the row <<userId, channelId>>
  markResp,         \* the last POST /channels/:channelId/read and its response
  unreadResp,       \* the last GET /channels/workspace/:workspaceId and its response
  repliesResp,      \* the last GET /messages/:messageId/replies and its response
  joinReq,          \* per request slot: the join-by-invite in flight, if any
  joinResp,         \* the response the last join step sent, if any
  refreshToken,     \* RefreshToken rows: [id, token]
  nextTokId,        \* the next fresh RefreshToken id
  authReq,          \* per refresh attempt: the POST /auth/refresh in flight, if any
  authResp,         \* the response the last auth step sent, if any
  clientTokens      \* the token pair the client's ApiService holds, if any

dbVars == <<workspaceMember, channelMember>>
sockVars == <<conn, lastEvent>>
msgVars == <<messages, nextId, clock, onParentDelete, req, lastResp, emitted, pushCalls>>
readVars == <<listResp, walk, searchResp>>
pushVars == <<vapid, pushSubscription, nextSubId, push>>
chanVars == <<lastRead, markResp, unreadResp, repliesResp>>
joinVars == <<joinReq, joinResp>>
authVars == <<refreshToken, nextTokId, authReq, authResp, clientTokens>>

(***************************************************************************)
(* Store lookups                                                           *)
(***************************************************************************)
WsRow(u, w) == \E r \in workspaceMember : r.userId = u /\ r.workspaceId = w

WsRole(u, w) ==
  IF WsRow(u, w)
    THEN (CHOOSE r \in workspaceMember : r.userId = u /\ r.workspaceId = w).role
    ELSE "NONE"

ChRow(u, c) == <<u, c>> \in channelMember

UserRoom(u) == <<"user", u>>
WorkspaceRoom(w) == <<"workspace", w>>
ChannelRoom(c) == <<"channel", c>>

(***************************************************************************)
(* Socket gateway: handshake middleware (io.use)                           *)
(***************************************************************************)
\* what a handshake can carry in socket.handshake.auth.token
Credentials ==
  {[kind |-> "none", userId |-> "-"],
   [kind |-> "malformed", userId |-> "-"],
   [kind |-> "expired", userId |-> "u1"]}
  \cup {[kind |-> "valid", userId |-> u] : u \in Users \cup {GoneUser}}

\* jwt.verify: throws unless the token is well-formed, signed and unexpired
JwtVerifies(cred) == cred.kind = "valid"

\* prisma.user.findUnique({ where: { id } }) finds a row
UserExists(u) == u \in Users

\* The error the middleware passes to next(), "none" when it accepts.
\* lookupFails: the user lookup itself throws (persistence failure).
AuthErrorBuggy(cred, lookupFails) ==
  IF cred.kind = "none" THEN "Authentication required"
  ELSE IF ~JwtVerifies(cred) THEN "Invalid token"
  ELSE IF lookupFails THEN "Invalid token"
  ELSE IF ~UserExists(cred.userId) THEN "Invalid token"
  ELSE "none"

AuthError(cred, lookupFails) ==
  IF cred.kind = "none" THEN "Authentication required"
  ELSE IF ~JwtVerifies(cred) THEN "Invalid token"
  ELSE IF lookupFails THEN "Invalid token"
  ELSE IF ~UserExists(cred.userId) THEN "User not found"
  ELSE "none"

NewConn ==
  [state |-> "new", cred |-> [kind |-> "none", userId |-> "-"],
   lookupFailed |-> FALSE, user |-> "-", error |-> "none",
   rooms |-> {}, handlers |-> FALSE, snapshot |-> {}, offline |-> {}]

\* io.use(async (socket, next) => ...)
Handshake(s, cred, lookupFails) ==
  /\ conn[s].state = "new"
  /\ lookupFails => (cred.kind # "none" /\ JwtVerifies(cred))
  /\ LET err == AuthError(cred, lookupFails) IN
       conn' = [conn EXCEPT ![s] =
                  [@ EXCEPT !.cred = cred,
                            !.lookupFailed = lookupFails,
                            !.error = err,
                            !.state = IF err = "none" THEN "authed" ELSE "rejected",
                            !.user = IF err = "none" THEN cred.userId ELSE "-"]]
  /\ lastEvent' = <<"handshake", "-">>
  /\ UNCHANGED <<dbVars, msgVars, readVars, pushVars, chanVars, joinVars, authVars>>

(***************************************************************************)
(* Socket gateway: io.on('connection')                                     *)
(***************************************************************************)
\* socket.join(`user:${user.id}`), then the membership query is awaited
ConnectionStart(s) ==
  /\ conn[s].state = "authed"
  /\ conn' = [conn EXCEPT ![s] =
                [@ EXCEPT !.state = "resolving",
                          !.rooms = {UserRoom(conn[s].user)}]]
  /\ lastEvent' = <<"connection", "-">>
  /\ UNCHANGED <<dbVars, msgVars, readVars, pushVars, chanVars, joinVars, authVars>>

\* the where-clause of the connect query: channels of a workspace the user
\* belongs to that are public or have a ChannelMember row for the user
InitialChannels(u) ==
  {c \in Channels :
     /\ WsRow(u, Chan[c].workspaceId)
     /\ (~Chan[c].isPrivate \/ ChRow(u, c))}

InitialWorkspaces(u) == {w \in Workspaces : WsRow(u, w)}

\* the membership query resolved: join the rooms, register the handlers
ConnectionResolve(s) ==
  /\ conn[s].state = "resolving"
  /\ LET u == conn[s].user
         chans == InitialChannels(u)
         wss == InitialWorkspaces(u) IN
       conn' = [conn EXCEPT ![s] =
                  [@ EXCEPT !.state = "open",
                            !.handlers = TRUE,
                            !.snapshot = wss,
                            !.rooms = @ \cup {WorkspaceRoom(w) : w \in wss}
                                        \cup {ChannelRoom(c) : c \in chans}]]
  /\ lastEvent' = <<"connection", "-">>
  /\ UNCHANGED <<dbVars, msgVars, readVars, pushVars, chanVars, joinVars, authVars>>

\* the membership query rejected: the async listener's promise rejects
\* before any handler is registered; the socket keeps its personal room
ConnectionResolveFails(s) ==
  /\ conn[s].state = "resolving"
  /\ conn' = [conn EXCEPT ![s] = [@ EXCEPT !.state = "open"]]
  /\ lastEvent' = <<"connection", "-">>
  /\ UNCHANGED <<dbVars, msgVars, readVars, pushVars, chanVars, joinVars, authVars>>

(***************************************************************************)
(* Socket events                                                           *)
(***************************************************************************)
\* the check of channel:join, the channel row being found
CanJoinChannelWorkspaceOnly(u, c) == WsRow(u, Chan[c].workspaceId)

CanJoinChannel(u, c) ==
  IF Chan[c].isPrivate
    THEN ChRow(u, c)
    ELSE WsRow(u, Chan[c].workspaceId)

JoinArgs == Channels \cup {"c0"}   \* "c0": an id with no channel row

\* socket.on('channel:join', async (channelId) => ...)
ChannelJoin(s, c, dbFails) ==
  /\ conn[s].handlers
  /\ LET u == conn[s].user
         ok == /\ ~dbFails
               /\ c \in Channels
               /\ CanJoinChannel(u, c)
         after == IF ok THEN conn[s].rooms \cup {ChannelRoom(c)}
                        ELSE conn[s].rooms IN
       conn' = [conn EXCEPT ![s] = [@ EXCEPT !.rooms = after]]
  /\ lastEvent' = <<"channel:join", c>>
  /\ UNCHANGED <<dbVars, msgVars, readVars, pushVars, chanVars, joinVars, authVars>>

\* socket.on('channel:leave', (channelId) => socket.leave(...))
ChannelLeave(s, c) ==
  /\ conn[s].handlers
  /\ conn' = [conn EXCEPT ![s] = [@ EXCEPT !.rooms = @ \ {ChannelRoom(c)}]]
  /\ lastEvent' = <<"channel:leave", c>>
  /\ UNCHANGED <<dbVars, msgVars, readVars, pushVars, chanVars, joinVars, authVars>>

\* socket.on('workspace:join', async (workspaceId) => ...)
WorkspaceJoin(s, w, dbFails) ==
  /\ conn[s].handlers
  /\ LET u == conn[s].user
         ok == ~dbFails /\ WsRow(u, w)
         chans == IF ok
                    THEN {c \in Channels :
                            Chan[c].workspaceId = w /\ ~Chan[c].isPrivate}
                    ELSE {}
         after == IF ok
                    THEN conn[s].rooms \cup {WorkspaceRoom(w)}
                           \cup {ChannelRoom(c) : c \in chans}
                    ELSE conn[s].rooms IN
       conn' = [conn EXCEPT ![s] = [@ EXCEPT !.rooms = after]]
  /\ lastEvent' = <<"workspace:join", w>>
  /\ UNCHANGED <<dbVars, msgVars, readVars, pushVars, chanVars, joinVars, authVars>>

\* the workspaces of a snapshot in the order of its rows
RECURSIVE SnapshotOrder(_)
SnapshotOrder(S) ==
  IF S = {} THEN <<>>
  ELSE LET w == CHOOSE x \in S : \A y \in S : x = "w1" \/ y # "w1" IN
         <<w>> \o SnapshotOrder(S \ {w})

\* memberships.forEach(... socket.to(`workspace:${id}`).emit('presence:updated'))
PresenceEvents(u, snapshot, status) ==
  [i \in 1..Cardinality(snapshot) |->
     [event |-> "presence:updated",
      room |-> WorkspaceRoom(SnapshotOrder(snapshot)[i]),
      payload |-> [userId |-> u, status |-> status]]]

\* socket.on('presence:update', async (status) => ...)
PresenceUpdate(s, status) ==
  /\ conn[s].state = "open" /\ conn[s].handlers
  /\ lastEvent' = <<"presence:update", status>>
  /\ emitted' = PresenceEvents(conn[s].user, conn[s].snapshot, status)
  /\ UNCHANGED <<conn, messages, nextId, clock, onParentDelete, req, lastResp, pushCalls>>
  /\ UNCHANGED <<dbVars, readVars, pushVars, chanVars, joinVars, authVars>>

\* The transport closes the socket and fires 'disconnect'.  The listener is
\* registered at the end of the connection handler, after the awaited
\* membership query: while that query is pending, or after it rejected,
\* nothing listens.  The listener sends offline to the rooms of the snapshot.
Disconnect(s) ==
  /\ conn[s].state \in {"resolving", "open"}
  /\ LET sent == IF conn[s].handlers
                   THEN PresenceEvents(conn[s].user, conn[s].snapshot, "offline")
                   ELSE <<>> IN
       /\ emitted' = sent
       /\ conn' = [conn EXCEPT ![s] =
                     [@ EXCEPT !.state = IF conn[s].state = "resolving"
                                           THEN "closedResolving" ELSE "closed",
                               !.rooms = {},
                               !.offline = {sent[i].room : i \in 1..Len(sent)}]]
  /\ lastEvent' = <<"disconnect", "-">>
  /\ UNCHANGED <<messages, nextId, clock, onParentDelete, req, lastResp, pushCalls>>
  /\ UNCHANGED <<dbVars, readVars, pushVars, chanVars, joinVars, authVars>>

\* the membership query of a socket that has disconnected meanwhile resolves:
\* the handler goes on, joins the rooms and registers its listeners, the
\* disconnect listener included, on a socket whose disconnect has passed
ConnectionResolveLate(s) ==
  /\ conn[s].state = "closedResolving"
  /\ LET u == conn[s].user
         chans == InitialChannels(u)
         wss == InitialWorkspaces(u) IN
       conn' = [conn EXCEPT ![s] =
                  [@ EXCEPT !.state = "closed",
                            !.handlers = TRUE,
                            !.snapshot = wss,
                            !.rooms = @ \cup {WorkspaceRoom(w) : w \in wss}
                                        \cup {ChannelRoom(c) : c \in chans}]]
  /\ lastEvent' = <<"connection", "-">>
  /\ UNCHANGED <<dbVars, msgVars, readVars, pushVars, chanVars, joinVars, authVars>>

(***************************************************************************)
(* Membership administration (requests that change the membership rows)    *)
(***************************************************************************)
\* POST /workspaces/join/:inviteCode: one transaction creating the
\* WorkspaceMember row and a ChannelMember row per public channel; a unique
\* violation on any row rolls the whole transaction back
JoinWorkspace(u, w) ==
  /\ ~WsRow(u, w)
  /\ LET pub == {c \in Channels : Chan[c].workspaceId = w /\ ~Chan[c].isPrivate} IN
       /\ \A c \in pub : ~ChRow(u, c)
       /\ workspaceMember' = workspaceMember \cup
            {[userId |-> u, workspaceId |-> w, role |-> "MEMBER"]}
       /\ channelMember' = channelMember \cup {<<u, c>> : c \in pub}
  /\ UNCHANGED <<sockVars, msgVars, readVars, pushVars, chanVars, joinVars, authVars>>

AdminCount(w) ==
  Cardinality({r \in workspaceMember : r.workspaceId = w /\ r.role = "ADMIN"})

\* DELETE /workspaces/:workspaceId/members/:userId (isWorkspaceAdmin)
RemoveMember(a, w, u) ==
  /\ WsRole(a, w) = "ADMIN"
  /\ ~(u = a /\ AdminCount(w) = 1)
  /\ WsRow(u, w)
  /\ workspaceMember' = {r \in workspaceMember :
                           ~(r.userId = u /\ r.workspaceId = w)}
  /\ UNCHANGED <<channelMember, sockVars, msgVars, readVars, pushVars, chanVars, joinVars, authVars>>

\* the isChannelMember middleware's decision for an existing channel
IsChannelMember(u, c) ==
  IF ~Chan[c].isPrivate
    THEN WsRow(u, Chan[c].workspaceId)
    ELSE ChRow(u, c)

\* the isChannelMember middleware's answer: <<200, "-">> lets the request on
ChannelGate(u, c) ==
  IF c \notin Channels THEN <<404, "Channel not found">>
  ELSE IF IsChannelMember(u, c) THEN <<200, "-">>
  ELSE IF ~Chan[c].isPrivate THEN <<403, "Not a member of this workspace">>
  ELSE <<403, "Not a member of this channel">>

\* POST /channels/:channelId/members (isChannelMember)
AddChannelMember(a, c, u) ==
  /\ IsChannelMember(a, c)
  /\ WsRow(u, Chan[c].workspaceId)
  /\ ~ChRow(u, c)
  /\ channelMember' = channelMember \cup {<<u, c>>}
  /\ UNCHANGED <<workspaceMember, sockVars, msgVars, readVars, pushVars, chanVars, joinVars, authVars>>

\* DELETE /channels/:channelId/members/:userId (isChannelMember); the row's
\* lastRead goes with the row
RemoveChannelMember(a, c, u) ==
  /\ IsChannelMember(a, c)
  /\ ChRow(u, c)
  /\ channelMember' = channelMember \ {<<u, c>>}
  /\ lastRead' = [lastRead EXCEPT ![<<u, c>>] = 0]
  /\ UNCHANGED <<markResp, unreadResp, repliesResp>>
  /\ UNCHANGED <<workspaceMember, sockVars, msgVars, readVars, pushVars, joinVars, authVars>>

(***************************************************************************)
(* The gateway's specification                                             *)
(***************************************************************************)
\* u1 created w1 (its creator is ADMIN and member of its channels), u2 w2
StoreRowsWs ==
  {[userId |-> "u1", workspaceId |-> "w1", role |-> "ADMIN"],
   [userId |-> "u2", workspaceId |-> "w2", role |-> "ADMIN"]}

StoreRowsCh == {<<"u1", "c1">>, <<"u1", "c2">>, <<"u2", "c3">>}

IdleReq ==
  [pc |-> "idle", op |-> "-", user |-> "-", channelId |-> "-", messageId |-> 0,
   content |-> <<>>, parentId |-> 0]

NoResp == [op |-> "-", user |-> "-", status |-> 0, error |-> "-"]

\* no list request answered yet
NoList ==
  [user |-> "-", channelId |-> "-", cursor |-> 0, limit |-> [given |-> FALSE, text |-> <<>>],
   status |-> 0, error |-> "-", take |-> [nan |-> FALSE, n |-> 0],
   messages |-> <<>>, nextCursor |-> 0, hasMore |-> FALSE]

\* the client has not loaded a channel
NoWalk == [phase |-> "idle", channelId |-> "-", limit |-> <<>>, seen |-> <<>>,
           hasMore |-> FALSE, nextCursor |-> 0, pages |-> 0]

\* no sendPushToUser call tracked
NoJob == [pc |-> "idle", subs |-> {}, outcome |-> {}, prune |-> {}]

\* lastRead of rows that were never marked read
NeverRead == [p \in Users \X Channels |-> 0]

NoMark == [user |-> "-", channelId |-> "-", status |-> 0, error |-> "-", at |-> 0]

NoUnread == [user |-> "-", workspaceId |-> "-", status |-> 0, unreadCount |-> <<>>]

NoReplies == [user |-> "-", messageId |-> 0, status |-> 0, error |-> "-",
              replies |-> <<>>]

NoJoin == [pc |-> "idle", user |-> "-", workspaceId |-> "-"]

NoJoinResp == [user |-> "-", workspaceId |-> "-", status |-> 0, error |-> "-"]

\* no token: a missing body field, null in the client
NoToken == [userId |-> "-", iat |-> 0]

NoAttempt == [pc |-> "idle", token |-> NoToken, rowId |-> 0, client |-> FALSE,
              status |-> 0, issued |-> NoToken]

NoAuthResp == [op |-> "-", token |-> NoToken, status |-> 0, error |-> "-",
               issued |-> NoToken]

\* no search answered yet
NoSearch ==
  [user |-> "-", workspaceId |-> "-", q |-> <<>>, channelId |-> "-", authorId |-> "-",
   status |-> 0, error |-> "-", messages |-> <<>>]

InitSocket ==
  /\ workspaceMember = StoreRowsWs
  /\ channelMember = StoreRowsCh
  /\ conn = [s \in Conns |-> NewConn]
  /\ lastEvent = <<"none", "-">>
  /\ messages = {}
  /\ nextId = 1
  /\ clock = 1
  /\ onParentDelete = "Cascade"
  /\ req = [r \in Slots |-> IdleReq]
  /\ lastResp = NoResp
  /\ emitted = <<>>
  /\ pushCalls = <<>>
  /\ listResp = NoList
  /\ walk = NoWalk
  /\ searchResp = NoSearch
  /\ vapid = FALSE
  /\ pushSubscription = {}
  /\ nextSubId = 1
  /\ push = [u \in Users |-> NoJob]
  /\ lastRead = NeverRead
  /\ markResp = NoMark
  /\ unreadResp = NoUnread
  /\ repliesResp = NoReplies
  /\ joinReq = [r \in Slots |-> NoJoin]
  /\ joinResp = NoJoinResp
  /\ refreshToken = {}
  /\ nextTokId = 1
  /\ authReq = [a \in RefreshCalls |-> NoAttempt]
  /\ authResp = NoAuthResp
  /\ clientTokens = NoToken

SocketNext ==
  \/ \E s \in GatewayConns, cred \in Credentials, f \in BOOLEAN : Handshake(s, cred, f)
  \/ \E s \in GatewayConns : ConnectionStart(s)
  \/ \E s \in GatewayConns : ConnectionResolve(s)
  \/ \E s \in GatewayConns : ConnectionResolveFails(s)
  \/ \E s \in GatewayConns, c \in JoinArgs, f \in BOOLEAN : ChannelJoin(s, c, f)
  \/ \E s \in GatewayConns, c \in Channels : ChannelLeave(s, c)
  \/ \E s \in GatewayConns, w \in Workspaces, f \in BOOLEAN : WorkspaceJoin(s, w, f)
  \/ \E u \in Users, w \in Workspaces : JoinWorkspace(u, w)
  \/ \E a \in Users, w \in Workspaces, u \in Users : RemoveMember(a, w, u)
  \/ \E a \in Users, c \in Channels, u \in Users : AddChannelMember(a, c, u)
  \/ \E a \in Users, c \in Channels, u \in Users : RemoveChannelMember(a, c, u)

vars == <<dbVars, sockVars, msgVars, readVars, pushVars, chanVars, joinVars, authVars>>

SpecSocket == InitSocket /\ [][SocketNext]_vars

(***************************************************************************)
(* Properties of the socket gateway                                        *)
(***************************************************************************)
\* the channel rooms a step adds to socket s
AddedChannels(s) ==
  {c \in JoinArgs :
     ChannelRoom(c) \in conn'[s].rooms /\ ChannelRoom(c) \notin conn[s].rooms}

\* the entitlement rule of an explicit join, on the rows as they are now
JoinRule(u, c) ==
  /\ c \in Channels
  /\ IF Chan[c].isPrivate THEN <<u, c>> \in channelMember
     ELSE \E r \in workspaceMember :
            r.userId = u /\ r.workspaceId = Chan[c].workspaceId

\* the resolver rule applied at connect, on the rows as they are now
ResolverRule(u, c) ==
  /\ c \in Channels
  /\ \E r \in workspaceMember :
       r.userId = u /\ r.workspaceId = Chan[c].workspaceId
  /\ Chan[c].isPrivate => <<u, c>> \in channelMember

\* C2: a step adds a channel room to a socket only at connect, by the
\* resolver rule, or in a join event while the join rule holds of the rows
\* (private: ChannelMember row; public: WorkspaceMember row of the channel's
\* workspace).  A channel:join whose rule fails therefore adds nothing; every
\* step of a socket with registered handlers leaves it open, its handlers
\* registered and its error unset.
C2_RoomsEntitledWhenAdded ==
  [][\A s \in Conns :
       /\ \A c \in AddedChannels(s) :
            IF conn[s].state = "resolving"
              THEN ResolverRule(conn[s].user, c)
              ELSE conn[s].handlers /\ JoinRule(conn[s].user, c)
       /\ conn[s].handlers =>
            /\ conn'[s].handlers
            /\ conn'[s].state = "open"
            /\ conn'[s].error = "none"]_vars

\* Scenario A: a workspace member without a ChannelMember row has just asked
\* to join the private channel c2; it holds c1's room and not c2's
C2_Witness ==
  \E s \in Conns :
    /\ lastEvent = <<"channel:join", "c2">>
    /\ conn[s].handlers
    /\ WsRow(conn[s].user, "w1")
    /\ ~ChRow(conn[s].user, "c2")
    /\ ChannelRoom("c1") \in conn[s].rooms
    /\ ChannelRoom("c2") \notin conn[s].rooms

\* the class of a handshake credential
CredClass(cred) ==
  IF cred.kind = "none" THEN "missing"
  ELSE IF cred.kind # "valid" THEN "invalid"
  ELSE IF cred.userId \notin Users THEN "gone"
  ELSE "good"

\* the error each rejected class is answered with
ClassError(class) ==
  CASE class = "missing" -> "Authentication required"
    [] class = "invalid" -> "Invalid token"
    [] class = "gone"    -> "User not found"
    [] OTHER             -> "none"

PresenceStatuses == {"away"}

PresenceNext ==
  \/ \E s \in GatewayConns, cred \in Credentials : Handshake(s, cred, FALSE)
  \/ \E s \in GatewayConns : ConnectionStart(s)
  \/ \E s \in GatewayConns : ConnectionResolve(s)
  \/ \E s \in GatewayConns : ConnectionResolveFails(s)
  \/ \E s \in GatewayConns : ConnectionResolveLate(s)
  \/ \E s \in GatewayConns, st \in PresenceStatuses : PresenceUpdate(s, st)
  \/ \E s \in GatewayConns : Disconnect(s)
  \/ \E u \in Users, w \in Workspaces : JoinWorkspace(u, w)
  \/ \E a \in Users, w \in Workspaces, u \in Users : RemoveMember(a, w, u)

SpecPresence == InitSocket /\ [][PresenceNext]_vars

\* C15: once a socket that had passed the handshake has disconnected and the
\* membership snapshot of its connection is taken, presence:updated offline
\* has been sent to the room of every workspace of that snapshot.
C15_OfflineToSnapshotRooms ==
  \A s \in Conns :
    (conn[s].state = "closed" /\ conn[s].handlers) =>
      conn[s].offline = {WorkspaceRoom(w) : w \in conn[s].snapshot}

(***************************************************************************)
(* Message content: strings as sequences of characters                     *)
(***************************************************************************)
Blank(ch) == ch = " "

RECURSIVE TrimLeft(_)
TrimLeft(t) == IF t # <<>> /\ Blank(Head(t)) THEN TrimLeft(Tail(t)) ELSE t

RECURSIVE TrimRight(_)
TrimRight(t) ==
  IF t # <<>> /\ Blank(t[Len(t)]) THEN TrimRight(SubSeq(t, 1, Len(t) - 1)) ELSE t

\* String.prototype.trim
NoTrim(t) == t

Trim(t) == TrimRight(TrimLeft(t))

\* \w of the mention pattern
WordChar(ch) == ch \in {"a", "b", "A", "B", "x", "y"}

\* first index at or after i that holds no word character
RECURSIVE WordEnd(_, _)
WordEnd(t, i) == IF i <= Len(t) /\ WordChar(t[i]) THEN WordEnd(t, i + 1) ELSE i

\* content.match(/@(\w+)/g) as a set, scanning from index i; {} for null
RECURSIVE MatchMentions(_, _)
MatchMentions(t, i) ==
  IF i > Len(t) THEN {}
  ELSE IF t[i] = "@" /\ WordEnd(t, i + 1) > i + 1
    THEN {SubSeq(t, i, WordEnd(t, i + 1) - 1)}
           \cup MatchMentions(t, WordEnd(t, i + 1))
    ELSE MatchMentions(t, i + 1)

\* a comparison that keeps the case
KeepCase(t) == t

ToLowerChar(ch) == IF ch = "B" THEN "b" ELSE IF ch = "A" THEN "a" ELSE ch

\* String.prototype.toLowerCase
ToLowerCase(t) == [i \in 1..Len(t) |-> ToLowerChar(t[i])]

DisplayName == [u \in Users |-> IF u = "u1" THEN <<"a", "x">> ELSE <<"b">>]

(***************************************************************************)
(* Message store                                                           *)
(***************************************************************************)
MaxMsgs == 2     \* message ids that can be allocated

MsgIds == 1..MaxMsgs

Exists(m) == \E x \in messages : x.id = m

Msg(m) == CHOOSE x \in messages : x.id = m

\* bodies that a create request carries
CreateContents == {<<>>, <<" ">>, <<" ", "x">>, <<"@", "B">>}

\* bodies that an edit request carries
EditContents == {<<"@", "B", " ">>}

Respond(op, u, status, error) ==
  [op |-> op, user |-> u, status |-> status, error |-> error]

Emit(event, room, payload) ==
  [event |-> event, room |-> room, payload |-> payload]

(***************************************************************************)
(* POST /messages/channel/:channelId                                       *)
(***************************************************************************)
\* the handler's validation (content, then the parent row), "ok" if it passes
CreateValidationAllowsNesting(c, content, parentId) ==
  IF content = <<>> \/ Len(Trim(content)) = 0
    THEN "Message content is required"
  ELSE IF parentId # 0 /\ (~Exists(parentId) \/ Msg(parentId).channelId # c)
    THEN "Invalid parent message"
  ELSE "ok"

CreateValidation(c, content, parentId) ==
  IF content = <<>> \/ Len(Trim(content)) = 0
    THEN "Message content is required"
  ELSE IF parentId # 0 /\ (~Exists(parentId) \/ Msg(parentId).channelId # c)
    THEN "Invalid parent message"
  ELSE IF parentId # 0 /\ Msg(parentId).parentId # 0
    THEN "Cannot reply to a reply"
  ELSE "ok"

\* the slot that takes the next request: the first idle one
FreeSlot == IF req["r1"].pc = "idle" THEN "r1" ELSE "r2"

Takes(r) == req[r].pc = "idle"

\* message ids not yet allocated nor awaited by a create in flight
IdsLeft == MaxMsgs - (nextId - 1) - Cardinality({r \in Slots : req[r].op = "create"})

\* what a handler emits after its awaited write: nothing when the write threw
EmitRegardless(ok, events) == events

EmitAfter(ok, events) == IF ok THEN events ELSE <<>>

\* isChannelMember, then the handler up to its create call.
\* lookupFails: the parent lookup throws.  Once no message id is left, the
\* create call is the one that throws, taken in the same step.
CreateStart(r, u, c, content, parentId, lookupFails) ==
  /\ Takes(r)
  /\ IF ChannelGate(u, c)[1] # 200
       THEN /\ ~lookupFails
            /\ lastResp' = Respond("create", u, ChannelGate(u, c)[1], ChannelGate(u, c)[2])
            /\ UNCHANGED req
     ELSE IF lookupFails
       THEN /\ parentId # 0
            /\ ~(content = <<>> \/ Len(Trim(content)) = 0)
            /\ lastResp' = Respond("create", u, 500, "Failed to create message")
            /\ UNCHANGED req
     ELSE IF CreateValidation(c, content, parentId) # "ok"
       THEN /\ lastResp' = Respond("create", u, 400,
                                   CreateValidation(c, content, parentId))
            /\ UNCHANGED req
     ELSE IF IdsLeft = 0
       THEN /\ lastResp' = Respond("create", u, 500, "Failed to create message")
            /\ UNCHANGED req
     ELSE /\ req' = [req EXCEPT ![r] =
                       [IdleReq EXCEPT !.pc = "write", !.op = "create",
                                       !.user = u, !.channelId = c,
                                       !.content = content,
                                       !.parentId = parentId]]
          /\ lastResp' = NoResp
  /\ emitted' = <<>> /\ pushCalls' = <<>>
  /\ UNCHANGED <<messages, nextId, clock, onParentDelete, dbVars, sockVars, readVars, pushVars, chanVars, joinVars, authVars>>

\* workspace members whose display name equals a token, case-insensitively
MentionedUsers(content, w) ==
  {m.userId : m \in
     {m \in workspaceMember :
        /\ m.workspaceId = w
        /\ \E t \in MatchMentions(content, 1) :
             ToLowerCase(Tail(t)) = ToLowerCase(DisplayName[m.userId])}}

\* a set of users as a sequence (the order findMany returned the rows in)
RECURSIVE InOrder(_)
InOrder(S) ==
  IF S = {} THEN <<>>
  ELSE LET u == CHOOSE x \in S : \A y \in S : x = "u1" \/ y # "u1" IN
         <<u>> \o InOrder(S \ {u})

\* the room broadcast of a created row
CreateBroadcast(row) ==
  IF row.parentId # 0
    THEN Emit("message:reply", ChannelRoom(row.channelId),
              [parentId |-> row.parentId, message |-> row])
    ELSE Emit("message:new", ChannelRoom(row.channelId), row)

\* the mention events of a created row, one per mentioned user
MentionEvents(who, row, by) ==
  [i \in 1..Len(who) |->
     Emit("mention", UserRoom(who[i]),
          [channelId |-> row.channelId, message |-> row, mentionedBy |-> by])]

\* sendPushToUser called and not awaited: it has run up to its first await,
\* the subscription query, when the caller goes on
SpawnPushAwaited == [NoJob EXCEPT !.pc = "done"]

SpawnPush == [NoJob EXCEPT !.pc = "lookup"]

\* the tracked call of each user after sendPushToUser was called for the
\* users in who: the call returns at once when no VAPID key is set; one call
\* per user is tracked at a time
PushAfterCalls(who) ==
  [u \in Users |->
     IF vapid /\ u \in who /\ push[u].pc \in {"idle", "done"}
       THEN SpawnPush
       ELSE push[u]]

\* prisma.message.create resolved or threw; on success the broadcast follows,
\* then, if the content holds mentions, the member lookup (which may throw),
\* the mention events and the push calls, then the 201.  The membership rows
\* are the only state read after the write.
CreateWrite(r, writeFails, lookupFails) ==
  /\ req[r].pc = "write" /\ req[r].op = "create"
  /\ LET q == req[r]
         fkBroken == q.parentId # 0 /\ ~Exists(q.parentId)
         ok == ~(writeFails \/ fkBroken)
         row == [id |-> nextId, channelId |-> q.channelId,
                 authorId |-> q.user, content |-> Trim(q.content),
                 parentId |-> q.parentId, createdAt |-> clock]
         mentions == MatchMentions(q.content, 1)
         who == InOrder(MentionedUsers(q.content, Chan[q.channelId].workspaceId))
         notified == ok /\ mentions # {} /\ ~lookupFails IN
       /\ lookupFails => ok /\ mentions # {}
       /\ IF ok
            THEN messages' = messages \cup {row} /\ nextId' = nextId + 1
            ELSE UNCHANGED <<messages, nextId>>
       /\ emitted' = EmitAfter(ok, <<CreateBroadcast(row)>>)
                       \o (IF notified THEN MentionEvents(who, row, q.user)
                                       ELSE <<>>)
       /\ pushCalls' = IF notified THEN who ELSE <<>>
       /\ push' = IF notified
                    THEN PushAfterCalls({who[i] : i \in 1..Len(who)})
                    ELSE push
       /\ lastResp' = IF ok /\ ~lookupFails
                        THEN Respond("create", q.user, 201, "-")
                        ELSE Respond("create", q.user, 500,
                                     "Failed to create message")
  /\ req' = [req EXCEPT ![r] = IdleReq]
  /\ UNCHANGED <<clock, onParentDelete, dbVars, sockVars, readVars, chanVars, joinVars, authVars>>
  /\ UNCHANGED <<vapid, pushSubscription, nextSubId>>

(***************************************************************************)
(* PUT /messages/:messageId                                                *)
(***************************************************************************)
\* the author check of the edit handler
MayEditAuthorOrAdmin(u, row) ==
  \/ row.authorId = u
  \/ WsRole(u, Chan[row.channelId].workspaceId) = "ADMIN"

MayEdit(u, row) == row.authorId = u

\* the handler up to its update call
EditStart(r, u, m, content) ==
  /\ Takes(r)
  /\ IF ~Exists(m)
       THEN /\ lastResp' = Respond("edit", u, 404, "Message not found")
            /\ UNCHANGED req
     ELSE IF ~MayEdit(u, Msg(m))
       THEN /\ lastResp' = Respond("edit", u, 403,
                                   "Can only edit your own messages")
            /\ UNCHANGED req
     ELSE /\ req' = [req EXCEPT ![r] =
                       [IdleReq EXCEPT !.pc = "write", !.op = "edit",
                                       !.user = u, !.messageId = m,
                                       !.channelId = Msg(m).channelId,
                                       !.content = content]]
          /\ lastResp' = NoResp
  /\ emitted' = <<>> /\ pushCalls' = <<>>
  /\ UNCHANGED <<messages, nextId, clock, onParentDelete, dbVars, sockVars, readVars, pushVars, chanVars, joinVars, authVars>>

\* prisma.message.update resolved or threw (it throws when the row is gone)
EditWrite(r, writeFails) ==
  /\ req[r].pc = "write" /\ req[r].op = "edit"
  /\ LET q == req[r]
         ok == ~(writeFails \/ ~Exists(q.messageId))
         updated == [Msg(q.messageId) EXCEPT !.content = Trim(q.content)]
         event == Emit("message:updated", ChannelRoom(q.channelId), updated) IN
       /\ emitted' = EmitAfter(ok, <<event>>)
       /\ IF ~ok
            THEN /\ lastResp' = Respond("edit", q.user, 500,
                                        "Failed to update message")
                 /\ UNCHANGED messages
            ELSE /\ messages' = (messages \ {Msg(q.messageId)}) \cup {updated}
                 /\ lastResp' = Respond("edit", q.user, 200, "-")
  /\ req' = [req EXCEPT ![r] = IdleReq]
  /\ pushCalls' = <<>>
  /\ UNCHANGED <<nextId, clock, onParentDelete, dbVars, sockVars, readVars, pushVars, chanVars, joinVars, authVars>>

(***************************************************************************)
(* DELETE /messages/:messageId                                             *)
(***************************************************************************)
\* the author check alone
MayDeleteAuthorOnly(u, row) == row.authorId = u

\* author, or ADMIN of the workspace that owns the message's channel
MayDelete(u, row) ==
  \/ row.authorId = u
  \/ WsRole(u, Chan[row.channelId].workspaceId) = "ADMIN"

\* the handler up to its delete call
DeleteStart(r, u, m) ==
  /\ Takes(r)
  /\ IF ~Exists(m)
       THEN /\ lastResp' = Respond("delete", u, 404, "Message not found")
            /\ UNCHANGED req
     ELSE IF ~MayDelete(u, Msg(m))
       THEN /\ lastResp' = Respond("delete", u, 403, "Cannot delete this message")
            /\ UNCHANGED req
     ELSE /\ req' = [req EXCEPT ![r] =
                       [IdleReq EXCEPT !.pc = "write", !.op = "delete",
                                       !.user = u, !.messageId = m,
                                       !.channelId = Msg(m).channelId,
                                       !.parentId = Msg(m).parentId]]
          /\ lastResp' = NoResp
  /\ emitted' = <<>> /\ pushCalls' = <<>>
  /\ UNCHANGED <<messages, nextId, clock, onParentDelete, dbVars, sockVars, readVars, pushVars, chanVars, joinVars, authVars>>

\* the rows left after deleting row m, by the parent relation's action
AfterDelete(m) ==
  IF onParentDelete = "Cascade"
    THEN {x \in messages : x.id # m /\ x.parentId # m}
    ELSE {IF x.parentId = m THEN [x EXCEPT !.parentId = 0] ELSE x :
            x \in {y \in messages : y.id # m}}

\* prisma.message.delete resolved or threw (it throws when the row is gone)
DeleteWrite(r, writeFails) ==
  /\ req[r].pc = "write" /\ req[r].op = "delete"
  /\ LET q == req[r]
         ok == ~(writeFails \/ ~Exists(q.messageId))
         event == Emit("message:deleted", ChannelRoom(q.channelId),
                       [messageId |-> q.messageId, parentId |-> q.parentId]) IN
       /\ emitted' = EmitAfter(ok, <<event>>)
       /\ IF ~ok
            THEN /\ lastResp' = Respond("delete", q.user, 500,
                                        "Failed to delete message")
                 /\ UNCHANGED messages
            ELSE /\ messages' = AfterDelete(q.messageId)
                 /\ lastResp' = Respond("delete", q.user, 200, "-")
  /\ req' = [req EXCEPT ![r] = IdleReq]
  /\ pushCalls' = <<>>
  /\ UNCHANGED <<nextId, clock, onParentDelete, dbVars, sockVars, readVars, pushVars, chanVars, joinVars, authVars>>

(***************************************************************************)
(* Push subscriptions and sendPushToUser                                   *)
(***************************************************************************)
MaxSubs == 3     \* PushSubscription ids that can be allocated

\* the endpoint that is unsubscribed and subscribed again
ChurnEndpoints == {"e1"}

\* what webpush.sendNotification can end with: 201 delivered, else the
\* statusCode of the error it rejected with (0: an error without one)
DeliveryStatuses == {201, 404, 410, 500, 0}

SubIds(rows) == {x.id : x \in rows}

\* POST /push/subscribe: upsert keyed by endpoint
Subscribe(u, e) ==
  /\ IF \E x \in pushSubscription : x.endpoint = e
       THEN /\ pushSubscription' =
                 {IF x.endpoint = e THEN [x EXCEPT !.userId = u] ELSE x :
                    x \in pushSubscription}
            /\ UNCHANGED nextSubId
       ELSE /\ nextSubId <= MaxSubs
            /\ pushSubscription' = pushSubscription \cup
                 {[id |-> nextSubId, userId |-> u, endpoint |-> e]}
            /\ nextSubId' = nextSubId + 1
  /\ UNCHANGED <<vapid, push, dbVars, sockVars, msgVars, readVars, chanVars, joinVars, authVars>>

\* POST /push/unsubscribe: deleteMany where userId and endpoint
Unsubscribe(u, e) ==
  /\ \E x \in pushSubscription : x.userId = u /\ x.endpoint = e
  /\ pushSubscription' =
       {x \in pushSubscription : ~(x.userId = u /\ x.endpoint = e)}
  /\ UNCHANGED <<vapid, nextSubId, push, dbVars, sockVars, msgVars, readVars, chanVars, joinVars, authVars>>

\* the statusCode test of the delivery's catch
GoneOrAnyError(status) == status >= 400

Gone(status) == status = 404 \/ status = 410

\* Promise.all resolved: every delivery and every delete has settled
Settled(job) ==
  IF SubIds(job.subs) = {o[1] : o \in job.outcome} /\ job.prune = {}
    THEN [job EXCEPT !.pc = "done"]
    ELSE job

\* prisma.pushSubscription.findMany({ where: { userId } }) resolved or threw;
\* the outer catch logs the error and the call ends
PushLookup(u, fails) ==
  /\ push[u].pc = "lookup"
  /\ push' = [push EXCEPT ![u] =
                IF fails THEN [@ EXCEPT !.pc = "done"]
                ELSE Settled([@ EXCEPT !.pc = "deliver",
                                       !.subs = {x \in pushSubscription :
                                                   x.userId = u}])]
  /\ UNCHANGED <<vapid, pushSubscription, nextSubId, dbVars, sockVars, msgVars, readVars, chanVars, joinVars, authVars>>

\* webpush.sendNotification for one subscription of the snapshot resolved or
\* rejected; a rejection with statusCode 404 or 410 starts the row's delete
PushDeliver(u, id, status) ==
  /\ push[u].pc = "deliver"
  /\ id \in SubIds(push[u].subs)
  /\ \A o \in push[u].outcome : o[1] # id
  /\ push' = [push EXCEPT ![u] =
                Settled([@ EXCEPT !.outcome = @ \cup {<<id, status>>},
                                  !.prune = IF Gone(status) THEN @ \cup {id}
                                                            ELSE @])]
  /\ UNCHANGED <<vapid, pushSubscription, nextSubId, dbVars, sockVars, msgVars, readVars, chanVars, joinVars, authVars>>

\* prisma.pushSubscription.delete({ where: { id } }) resolved or threw (it
\* throws when the row is gone); .catch(() => {}) drops the error
PushPrune(u, id, fails) ==
  /\ push[u].pc = "deliver"
  /\ id \in push[u].prune
  /\ pushSubscription' = IF fails THEN pushSubscription
                         ELSE {x \in pushSubscription : x.id # id}
  /\ push' = [push EXCEPT ![u] = Settled([@ EXCEPT !.prune = @ \ {id}])]
  /\ UNCHANGED <<vapid, nextSubId, dbVars, sockVars, msgVars, readVars, chanVars, joinVars, authVars>>

(***************************************************************************)
(* The message routes' specification: u1 is ADMIN of w1 and in c1 and c2,  *)
(* u2 is a MEMBER of w1 and in the public c1 only.                         *)
(***************************************************************************)
InitMsg ==
  /\ workspaceMember = StoreRowsWs \cup
       {[userId |-> "u2", workspaceId |-> "w1", role |-> "MEMBER"]}
  /\ channelMember = StoreRowsCh \cup {<<"u2", "c1">>}
  /\ conn = [s \in Conns |-> NewConn]
  /\ lastEvent = <<"none", "-">>
  /\ messages = {}
  /\ nextId = 1
  /\ clock = 1
  /\ onParentDelete \in {"Cascade", "SetNull"}
  /\ req = [r \in Slots |-> IdleReq]
  /\ lastResp = NoResp
  /\ emitted = <<>>
  /\ pushCalls = <<>>
  /\ listResp = NoList
  /\ walk = NoWalk
  /\ searchResp = NoSearch
  /\ vapid = FALSE
  /\ pushSubscription = {}
  /\ nextSubId = 1
  /\ push = [u \in Users |-> NoJob]
  /\ lastRead = NeverRead
  /\ markResp = NoMark
  /\ unreadResp = NoUnread
  /\ repliesResp = NoReplies
  /\ joinReq = [r \in Slots |-> NoJoin]
  /\ joinResp = NoJoinResp
  /\ refreshToken = {}
  /\ nextTokId = 1
  /\ authReq = [a \in RefreshCalls |-> NoAttempt]
  /\ authResp = NoAuthResp
  /\ clientTokens = NoToken

MsgChannels == {"c1", "c2"}

MsgNext ==
  \/ \E u \in Users, c \in MsgChannels, t \in CreateContents,
        p \in {0} \cup MsgIds, f \in BOOLEAN : CreateStart(FreeSlot, u, c, t, p, f)
  \/ \E r \in Slots, f, g \in BOOLEAN : CreateWrite(r, f, g)
  \/ \E u \in Users, m \in MsgIds, t \in EditContents :
       EditStart(FreeSlot, u, m, t)
  \/ \E r \in Slots, f \in BOOLEAN : EditWrite(r, f)
  \/ \E u \in Users, m \in MsgIds : DeleteStart(FreeSlot, u, m)
  \/ \E r \in Slots, f \in BOOLEAN : DeleteWrite(r, f)

SpecMsg == InitMsg /\ [][MsgNext]_vars

(***************************************************************************)
(* Properties of the message routes                                        *)
(***************************************************************************)
\* every stored reply names a top-level message of its own channel
OneLevel(rows) ==
  \A x \in rows : \A y \in rows :
    x.parentId = y.id => y.parentId = 0 /\ y.channelId = x.channelId

\* content that is empty or holds blanks only
AllBlank(t) == \A i \in 1..Len(t) : t[i] = " "

\* the step is one in which the idle slot received a request of u for op:
\* either it was answered at once or it was taken to its write
StartStepBy(op, u) ==
  /\ req[FreeSlot].pc = "idle"
  /\ \/ lastResp'.op = op /\ lastResp'.user = u /\ req' = req
     \/ lastResp' = NoResp /\ req'[FreeSlot].op = op /\ req'[FreeSlot].user = u

\* the step is the create handler answering 400 with the given error and
\* touching nothing: no row, no event, no push call, no write left pending
Rejected400(u, error) ==
  /\ lastResp' = Respond("create", u, 400, error)
  /\ messages' = messages /\ nextId' = nextId
  /\ emitted' = <<>> /\ pushCalls' = <<>>
  /\ req' = req

\* C4: in every state reached by any interleaving of create, edit and delete
\* requests, the parent of a stored reply is a top-level message of the same
\* channel; and a reply to an existing message m of the channel passes the
\* validation exactly when m.parentId is null: for a top-level m no 400 can
\* answer it, for a reply m nothing but the 400 'Cannot reply to a reply',
\* which creates no row, can.
C4_OneLevelThreads ==
  /\ OneLevel(messages)
  /\ \A u \in Users, c \in Channels : IsChannelMember(u, c) =>
       \A p \in MsgIds : Exists(p) /\ Msg(p).channelId = c =>
         \A t \in CreateContents : ~AllBlank(t) =>
           IF Msg(p).parentId = 0
             THEN ~ENABLED (/\ CreateStart(FreeSlot, u, c, t, p, FALSE)
                            /\ lastResp'.status = 400)
             ELSE ~ENABLED (/\ CreateStart(FreeSlot, u, c, t, p, FALSE)
                            /\ ~Rejected400(u, "Cannot reply to a reply"))

\* a reply to a reply has just been refused while the thread it aimed at is stored
C4_Witness ==
  /\ lastResp.op = "create" /\ lastResp.status = 400
  /\ lastResp.error = "Cannot reply to a reply"
  /\ \E x \in messages : x.parentId # 0 /\ Exists(x.parentId)
  /\ OneLevel(messages)

\* the error the create handler owes a request, "ok" if it owes none
Owed(c, t, p) ==
  IF AllBlank(t) THEN "Message content is required"
  ELSE IF p # 0 /\ ~Exists(p) THEN "Invalid parent message"
  ELSE IF p # 0 /\ Msg(p).channelId # c THEN "Invalid parent message"
  ELSE IF p # 0 /\ Msg(p).parentId # 0 THEN "Cannot reply to a reply"
  ELSE "ok"

\* C5: a create whose content is empty or whitespace-only, or whose parentId
\* names a missing message, a message of another channel or a reply, can be
\* received in one way only: it is answered 400 in the step that receives
\* it, the store is unchanged, nothing is broadcast, no mention event and no
\* push call is made and no write is left pending.
C5_RejectedCreateWritesNothing ==
  \A u \in Users, c \in Channels : IsChannelMember(u, c) =>
    \A t \in CreateContents, p \in {0} \cup MsgIds : Owed(c, t, p) # "ok" =>
      ~ENABLED (/\ CreateStart(FreeSlot, u, c, t, p, FALSE)
                /\ ~Rejected400(u, Owed(c, t, p)))

\* a create has just been refused for its content while messages are stored
C5_Witness ==
  /\ lastResp = Respond("create", "u2", 400, "Message content is required")
  /\ messages # {}
  /\ emitted = <<>> /\ pushCalls = <<>>
  /\ \A r \in Slots : req[r].pc = "idle"

\* the room broadcasts of the three writing handlers
RoomEvents == {"message:new", "message:reply", "message:updated", "message:deleted"}

\* the write that a broadcast event reports happened in this very step
WriteBehind(e) ==
  CASE e.event = "message:new" ->
         /\ e.payload \in messages' \ messages
         /\ e.room = ChannelRoom(e.payload.channelId)
    [] e.event = "message:reply" ->
         /\ e.payload.message \in messages' \ messages
         /\ e.room = ChannelRoom(e.payload.message.channelId)
    [] e.event = "message:updated" ->
         /\ e.payload \in messages'
         /\ \E x \in messages : x.id = e.payload.id
         /\ e.room = ChannelRoom(e.payload.channelId)
    [] e.event = "message:deleted" ->
         /\ \E x \in messages :
              x.id = e.payload.messageId /\ e.room = ChannelRoom(x.channelId)
         /\ \A x \in messages' : x.id # e.payload.messageId
    [] OTHER -> TRUE

\* C6: a message:new, message:reply, message:updated or message:deleted event
\* is emitted only in the step in which the create, update or delete it
\* reports has been written; and when the write of a create, an edit or a
\* delete fails, the step emits nothing, leaves the store as it was and
\* answers 500 with the handler's generic error.
C6_BroadcastOnlyAfterWrite ==
  [][/\ \A i \in 1..Len(emitted') :
          emitted'[i].event \in RoomEvents => WriteBehind(emitted'[i])
     /\ \A r \in Slots :
          ( \/ \E g \in BOOLEAN : CreateWrite(r, TRUE, g)
            \/ EditWrite(r, TRUE)
            \/ DeleteWrite(r, TRUE) )
          => /\ emitted' = <<>> /\ pushCalls' = <<>>
             /\ messages' = messages
             /\ lastResp'.status = 500
             /\ lastResp'.error \in {"Failed to create message",
                                     "Failed to update message",
                                     "Failed to delete message"}]_vars

\* an update has just failed on a stored message and nothing was emitted
C6_Witness ==
  /\ lastResp.op = "edit" /\ lastResp.status = 500
  /\ \E x \in messages : x.authorId = lastResp.user
  /\ emitted = <<>>

\* C10: the content of a stored message changes only in the step of an edit
\* that answers 200 to the message's author, and that step emits exactly one
\* message:updated, carrying the updated row, to the room of the message's
\* channel; an edit of an existing message by anyone else, a workspace ADMIN
\* included, is answered 403 and changes and emits nothing.
C10_EditOnlyByAuthor ==
  [][/\ \A x \in messages : \A y \in messages' :
          x.id = y.id /\ x.content # y.content
          => /\ lastResp' = Respond("edit", x.authorId, 200, "-")
             /\ emitted' = <<Emit("message:updated", ChannelRoom(x.channelId), y)>>
             /\ y = [x EXCEPT !.content = y.content]
     /\ lastResp'.op = "edit" /\ lastResp'.status = 200
          => /\ Len(emitted') = 1
             /\ emitted'[1].event = "message:updated"
             /\ emitted'[1].payload \in messages'
             /\ emitted'[1].payload.authorId = lastResp'.user
             /\ emitted'[1].room = ChannelRoom(emitted'[1].payload.channelId)
     /\ \A u \in Users : StartStepBy("edit", u) =>
          \A m \in MsgIds, t \in EditContents :
            ( /\ Exists(m) /\ Msg(m).authorId # u
              /\ EditStart(FreeSlot, u, m, t) )
            => /\ lastResp' = Respond("edit", u, 403, "Can only edit your own messages")
               /\ messages' = messages /\ emitted' = <<>> /\ req' = req]_vars

\* the ADMIN of the workspace has just been refused the edit of a member's message
C10_Witness ==
  /\ lastResp = Respond("edit", "u1", 403, "Can only edit your own messages")
  /\ WsRole("u1", "w1") = "ADMIN"
  /\ messages # {} /\ \A x \in messages : x.authorId = "u2"
  /\ emitted = <<>>

\* u wrote the row, or holds an ADMIN row in the workspace of the row's channel
DeleteAllowed(u, x) ==
  \/ x.authorId = u
  \/ [userId |-> u, workspaceId |-> Chan[x.channelId].workspaceId,
      role |-> "ADMIN"] \in workspaceMember

\* the parentId that a message:deleted event may carry for the stored row x:
\* the row's parentId as the handler read it, which is the stored one unless
\* the parent was deleted meanwhile and the store set the reference to null
ParentIdRead(x, p) ==
  \/ p = x.parentId
  \/ onParentDelete = "SetNull" /\ x.parentId = 0 /\ p # 0 /\ ~Exists(p)

Num(n) == [nan |-> FALSE, n |-> n]

NaN == [nan |-> TRUE, n |-> 0]

Digit(ch) == ch \in {"0", "1", "2"}

DigitVal(ch) == IF ch = "0" THEN 0 ELSE IF ch = "1" THEN 1 ELSE 2

\* the value of the longest prefix of digits of t, continuing from acc
RECURSIVE ParseDigits(_, _)
ParseDigits(t, acc) ==
  IF t # <<>> /\ Digit(Head(t))
    THEN ParseDigits(Tail(t), 10 * acc + DigitVal(Head(t)))
    ELSE acc

\* parseInt(text): leading blanks skipped, an optional sign, then the longest
\* prefix of digits; NaN when there is no digit there
ParseInt(t) ==
  LET s == TrimLeft(t)
      signed == s # <<>> /\ Head(s) \in {"-", "+"}
      body == IF signed THEN Tail(s) ELSE s IN
    IF body = <<>> \/ ~Digit(Head(body)) THEN NaN
    ELSE IF signed /\ Head(s) = "-" THEN Num(0 - ParseDigits(body, 0))
    ELSE Num(ParseDigits(body, 0))

\* Math.min(a, b) for a number a and an integer b
MathMin(a, b) == IF a.nan THEN NaN ELSE IF a.n < b THEN a ELSE Num(b)

DefaultListLimit == 50

MaxTake == 100

DefaultSearchLimit == 20

\* a query parameter `limit`: absent, or its text
Absent == [given |-> FALSE, text |-> <<>>]

Given(t) == [given |-> TRUE, text |-> t]

\* const { limit = default } = req.query; parseInt(limit)
RequestedLimit(limit, default) ==
  IF limit.given THEN ParseInt(limit.text) ELSE Num(default)

(***************************************************************************)
(* prisma.message.findMany with orderBy createdAt desc                     *)
(***************************************************************************)
\* the orders a query may return rows in: createdAt descending, rows of
\* equal createdAt in any order (the query names no second key)
RECURSIVE Orders(_)
Orders(rows) ==
  IF rows = {} THEN {<<>>}
  ELSE UNION {{<<x>> \o s : s \in Orders(rows \ {x})} :
                x \in {y \in rows : \A z \in rows : y.createdAt >= z.createdAt}}

\* where: { channelId, parentId: null }
TopLevel(c) == {x \in messages : x.channelId = c /\ x.parentId = 0}

\* cursor: { id }: the rows from the cursor's row on, in the order the
\* query returned them; none when the cursor's row is not among them
RECURSIVE FromCursor(_, _)
FromCursor(s, cursor) ==
  IF cursor = 0 \/ s = <<>> \/ Head(s).id = cursor THEN s
  ELSE FromCursor(Tail(s), cursor)

\* skip: 1 when a cursor is given
Skip(s, cursor) == IF cursor # 0 /\ s # <<>> THEN Tail(s) ELSE s

\* take: n (a negative n takes from the far end)
Take(s, n) ==
  IF n >= 0
    THEN SubSeq(s, 1, IF n < Len(s) THEN n ELSE Len(s))
    ELSE SubSeq(s, IF Len(s) + n + 1 > 1 THEN Len(s) + n + 1 ELSE 1, Len(s))

\* Array.prototype.slice(0, n)
SliceTo(s, n) ==
  IF n >= 0
    THEN SubSeq(s, 1, IF n < Len(s) THEN n ELSE Len(s))
    ELSE SubSeq(s, 1, Len(s) + n)

NoReverse(s) == s

\* Array.prototype.reverse()
Reverse(s) == [i \in 1..Len(s) |-> s[Len(s) + 1 - i]]

Ids(s) == [i \in 1..Len(s) |-> s[i].id]

(***************************************************************************)
(* GET /messages/channel/:channelId                                        *)
(***************************************************************************)
ListFailed(take) ==
  [status |-> 500, error |-> "Failed to get messages", take |-> take,
   messages |-> <<>>, nextCursor |-> 0, hasMore |-> FALSE]

\* the handler's body once isChannelMember let the request on.  ord: the
\* order the store returns the rows in.  nanThrows: what findMany does with
\* take: NaN (it throws, or it takes every row).
ListPage(cursor, limit, ord, nanThrows) ==
  LET take == MathMin(RequestedLimit(limit, DefaultListLimit), MaxTake)
      found == Skip(FromCursor(ord, cursor), cursor)
      rows == IF take.nan THEN found ELSE Take(found, take.n + 1)
      hasMore == ~take.nan /\ Len(rows) > take.n
      items == IF hasMore THEN SliceTo(rows, take.n) ELSE rows
      reversed == Reverse(items) IN
    IF take.nan /\ nanThrows THEN ListFailed(take)
    ELSE IF hasMore /\ reversed = <<>> THEN ListFailed(take)   \* items[0].id throws
    ELSE [status |-> 200, error |-> "-", take |-> take,
          messages |-> Ids(reversed),
          nextCursor |-> IF hasMore THEN reversed[1].id ELSE 0,
          hasMore |-> hasMore]

\* the response record of a list request
ListResponse(u, c, cursor, limit, body) ==
  [user |-> u, channelId |-> c, cursor |-> cursor, limit |-> limit,
   status |-> body.status, error |-> body.error, take |-> body.take,
   messages |-> body.messages, nextCursor |-> body.nextCursor,
   hasMore |-> body.hasMore]

\* isChannelMember, then the handler
ListAnswer(u, c, cursor, limit, ord, nanThrows) ==
  IF ChannelGate(u, c)[1] # 200
    THEN ListResponse(u, c, cursor, limit,
           [status |-> ChannelGate(u, c)[1], error |-> ChannelGate(u, c)[2],
            take |-> Num(0), messages |-> <<>>, nextCursor |-> 0,
            hasMore |-> FALSE])
    ELSE ListResponse(u, c, cursor, limit, ListPage(cursor, limit, ord, nanThrows))

ListTopLevel(u, c, cursor, limit, nanThrows) ==
  /\ nanThrows => RequestedLimit(limit, DefaultListLimit).nan /\ ChannelGate(u, c)[1] = 200
  /\ \E ord \in Orders(TopLevel(c)) :
       listResp' = ListAnswer(u, c, cursor, limit, ord, nanThrows)
  /\ walk' = NoWalk
  /\ UNCHANGED <<searchResp, dbVars, sockVars, msgVars, pushVars, chanVars, joinVars, authVars>>

(***************************************************************************)
(* The client's message list: loadMessages, then loadMoreMessages while    *)
(* the last page said hasMore, each older page put before the ones held.   *)
(***************************************************************************)
MaxPages == 4

WalkAfter(c, limit, seen, pages, resp) ==
  IF resp.status # 200
    THEN [phase |-> "failed", channelId |-> c, limit |-> limit, seen |-> seen,
          hasMore |-> FALSE, nextCursor |-> 0, pages |-> pages]
    ELSE [phase |-> IF resp.hasMore /\ resp.nextCursor # 0 THEN "more" ELSE "done",
          channelId |-> c, limit |-> limit, seen |-> resp.messages \o seen,
          hasMore |-> resp.hasMore, nextCursor |-> resp.nextCursor,
          pages |-> pages]

\* api.getMessages(channel.id, null, limit)
LoadMessages(u, c, limit) ==
  /\ \E ord \in Orders(TopLevel(c)) :
       /\ listResp' = ListAnswer(u, c, 0, Given(limit), ord, FALSE)
       /\ walk' = WalkAfter(c, limit, <<>>, 1, listResp')
  /\ UNCHANGED <<searchResp, dbVars, sockVars, msgVars, pushVars, chanVars, joinVars, authVars>>

\* api.getMessages(channel.id, nextCursor, limit)
LoadMoreMessages(u) ==
  /\ walk.phase = "more" /\ walk.hasMore /\ walk.nextCursor # 0
  /\ walk.pages < MaxPages
  /\ listResp.user = u
  /\ \E ord \in Orders(TopLevel(walk.channelId)) :
       /\ listResp' = ListAnswer(u, walk.channelId, walk.nextCursor,
                                 Given(walk.limit), ord, FALSE)
       /\ walk' = IF listResp'.status = 200
                    THEN WalkAfter(walk.channelId, walk.limit, walk.seen,
                                   walk.pages + 1, listResp')
                    ELSE walk        \* the catch keeps the state as it is
  /\ UNCHANGED <<searchResp, dbVars, sockVars, msgVars, pushVars, chanVars, joinVars, authVars>>

(***************************************************************************)
(* The list specification: a channel c1 holding up to MaxListMsgs          *)
(* top-level messages with createdAt in 1..MaxTime, a reply and a message  *)
(* of the private channel c2; no writes happen.                            *)
(***************************************************************************)
MaxListMsgs == 3

MaxTime == 2

ListRow(i, c, p, t) ==
  [id |-> i, channelId |-> c, authorId |-> "u1", content |-> <<"x">>,
   parentId |-> p, createdAt |-> t]

ReplyId == MaxListMsgs + 1

OtherId == MaxListMsgs + 2

\* the texts of the limit parameter that requests carry
LimitTexts ==
  {<<"0">>, <<"-", "1">>, <<"1">>, <<"2">>, <<"1", "0", "0">>,
   <<"1", "0", "1">>, <<"x">>, <<" ", "2", "x">>}

LimitParams == {Absent} \cup {Given(t) : t \in LimitTexts}

\* the page sizes the paging client asks for
WalkLimits == {<<"1">>, <<"2">>}

Cursors == 0..(MaxListMsgs + 2)

InitList ==
  /\ workspaceMember = StoreRowsWs \cup
       {[userId |-> "u2", workspaceId |-> "w1", role |-> "MEMBER"]}
  /\ channelMember = StoreRowsCh \cup {<<"u2", "c1">>}
  /\ conn = [s \in Conns |-> NewConn]
  /\ lastEvent = <<"none", "-">>
  /\ \E n \in 0..MaxListMsgs : \E ts \in [1..n -> 1..MaxTime] :
       messages = {ListRow(i, "c1", 0, ts[i]) : i \in 1..n}
                    \cup {ListRow(ReplyId, "c1", 1, MaxTime) : i \in 1..(IF n > 0 THEN 1 ELSE 0)}
                    \cup {ListRow(OtherId, "c2", 0, MaxTime)}
  /\ nextId = MaxListMsgs + 3
  /\ clock = MaxTime + 1
  /\ onParentDelete = "Cascade"
  /\ req = [r \in Slots |-> IdleReq]
  /\ lastResp = NoResp
  /\ emitted = <<>>
  /\ pushCalls = <<>>
  /\ listResp = NoList
  /\ walk = NoWalk
  /\ searchResp = NoSearch
  /\ vapid = FALSE
  /\ pushSubscription = {}
  /\ nextSubId = 1
  /\ push = [u \in Users |-> NoJob]
  /\ lastRead = NeverRead
  /\ markResp = NoMark
  /\ unreadResp = NoUnread
  /\ repliesResp = NoReplies
  /\ joinReq = [r \in Slots |-> NoJoin]
  /\ joinResp = NoJoinResp
  /\ refreshToken = {}
  /\ nextTokId = 1
  /\ authReq = [a \in RefreshCalls |-> NoAttempt]
  /\ authResp = NoAuthResp
  /\ clientTokens = NoToken

ListNext ==
  \/ \E u \in Users, c \in MsgChannels, k \in Cursors, l \in LimitParams,
        f \in BOOLEAN : ListTopLevel(u, c, k, l, f)
  \/ \E l \in WalkLimits : LoadMessages("u1", "c1", l)
  \/ LoadMoreMessages("u1")

SpecList == InitList /\ [][ListNext]_vars

(***************************************************************************)
(* Properties of the list route                                            *)
(***************************************************************************)
\* the request that listResp answers passed isChannelMember, and its cursor
\* is absent or names a top-level message of the channel
ListServed ==
  /\ listResp.status \in {200, 500}
  /\ listResp.cursor # 0 =>
       \E x \in TopLevel(listResp.channelId) : x.id = listResp.cursor

\* the top-level messages of channel c after cursor k, newest first with
\* ties broken by message id
AfterCursor(c, k) ==
  IF k = 0 THEN TopLevel(c)
  ELSE {x \in TopLevel(c) :
          \/ x.createdAt < Msg(k).createdAt
          \/ x.createdAt = Msg(k).createdAt /\ x.id < k}

\* C7: a list request with limit L is answered with a page of at most L
\* items whose hasMore is true exactly when more than L top-level messages of
\* the channel lie after the cursor (in the whole channel without a cursor).
C7_PageWithinLimit ==
  LET L == RequestedLimit(listResp.limit, DefaultListLimit) IN
    ListServed /\ ~L.nan =>
      /\ listResp.status = 200
      /\ Len(listResp.messages) <= L.n
      /\ listResp.hasMore <=>
           Cardinality(AfterCursor(listResp.channelId, listResp.cursor)) > L.n

\* C8: whatever the limit parameter (absent, 0, negative, not a number,
\* above 100), the page size the handler uses lies in 1..100 and the request
\* is answered 200 with a page of at most that many items.
C8_LimitClamped ==
  ListServed =>
    /\ listResp.status = 200
    /\ ~listResp.take.nan
    /\ 1 <= listResp.take.n /\ listResp.take.n <= MaxTake
    /\ Len(listResp.messages) <= listResp.take.n

\* C9: a client that loaded the newest page and followed nextCursor until
\* the server reported no more, with no write in between, holds every
\* top-level message of the channel exactly once, equal createdAt or not.
C9_PagingSeesEachOnce ==
  walk.phase = "done" =>
    /\ Len(walk.seen) = Cardinality(TopLevel(walk.channelId))
    /\ {walk.seen[i] : i \in 1..Len(walk.seen)} =
         {x.id : x \in TopLevel(walk.channelId)}

\* the createdAt of the i-th message of the page served
ServedAt(i) == Msg(listResp.messages[i]).createdAt

\* C19: a page served by the list route holds its messages oldest first;
\* when hasMore is true nextCursor is the id of the page's first element,
\* which is its oldest message, and when hasMore is false nextCursor is null.
C19_ChronologicalWithOldestCursor ==
  listResp.status = 200 =>
    /\ \A i, j \in 1..Len(listResp.messages) : i < j => ServedAt(i) <= ServedAt(j)
    /\ listResp.hasMore =>
         /\ listResp.messages # <<>>
         /\ listResp.nextCursor = listResp.messages[1]
         /\ \A i \in 1..Len(listResp.messages) :
              Msg(listResp.nextCursor).createdAt <= ServedAt(i)
    /\ ~listResp.hasMore => listResp.nextCursor = 0

\* a page of two messages of different age was served with more to come
C19_Witness ==
  /\ listResp.status = 200
  /\ listResp.hasMore
  /\ Len(listResp.messages) = 2
  /\ ServedAt(1) < ServedAt(2)
  /\ listResp.nextCursor = listResp.messages[1]

(***************************************************************************)
(* GET /messages/:messageId/replies                                        *)
(***************************************************************************)
RepliesResponse(u, m, status, error, found) ==
  [user |-> u, messageId |-> m, status |-> status, error |-> error,
   replies |-> found]

\* the handler's access check: a ChannelMember row is asked for only when
\* the message's channel is private
RepliesGate(u, c) ==
  IF Chan[c].isPrivate /\ ~ChRow(u, c)
    THEN <<403, "Not a member of this channel">>
    ELSE <<200, "-">>

\* fails: one of the queries throws.  The replies come back by createdAt
\* ascending, rows of equal createdAt in any order.
ListReplies(u, m, fails) ==
  /\ IF fails
       THEN repliesResp' = RepliesResponse(u, m, 500, "Failed to get replies", <<>>)
     ELSE IF ~Exists(m)
       THEN repliesResp' = RepliesResponse(u, m, 404, "Message not found", <<>>)
     ELSE IF RepliesGate(u, Msg(m).channelId)[1] # 200
       THEN repliesResp' = RepliesResponse(u, m,
                             RepliesGate(u, Msg(m).channelId)[1],
                             RepliesGate(u, Msg(m).channelId)[2], <<>>)
     ELSE \E ord \in Orders({x \in messages : x.parentId = m}) :
            repliesResp' = RepliesResponse(u, m, 200, "-", Ids(Reverse(ord)))
  /\ UNCHANGED <<lastRead, markResp, unreadResp>>
  /\ UNCHANGED <<dbVars, sockVars, msgVars, readVars, pushVars, joinVars, authVars>>

(***************************************************************************)
(* The visibility specification: u1 (member of w1, of its public c1 and    *)
(* its private c2) posts messages and replies; u2, at first a member of w2 *)
(* only, joins w1 and is removed, is added to c2 and removed, posts, lists *)
(* the channels and lists the replies of the first message.                *)
(***************************************************************************)
VisibleContents == {<<" ", "x">>}

VisibleNext ==
  \/ \E u \in Users, c \in MsgChannels, t \in VisibleContents, p \in {0, 1} :
       CreateStart(FreeSlot, u, c, t, p, FALSE)
  \/ \E r \in Slots : CreateWrite(r, FALSE, FALSE)
  \/ \E c \in MsgChannels : ListTopLevel("u2", c, 0, Absent, FALSE)
  \/ \E f \in BOOLEAN : ListReplies("u2", 1, f)
  \/ JoinWorkspace("u2", "w1")
  \/ RemoveMember("u1", "w1", "u2")
  \/ AddChannelMember("u1", "c2", "u2")
  \/ RemoveChannelMember("u1", "c2", "u2")

SpecVisible == InitSocket /\ [][VisibleNext]_vars

\* the channel visibility rule on the rows as they are
Visible(u, c) ==
  IF Chan[c].isPrivate
    THEN <<u, c>> \in channelMember
    ELSE \E r \in workspaceMember :
           r.userId = u /\ r.workspaceId = Chan[c].workspaceId

\* C16: a list, a replies or a create request of a user to whom the channel
\* (of the message, for replies) is not visible is answered 403 without
\* data, and no create of such a user is taken to its write.
C16_RequestsApplyVisibility ==
  [][/\ (listResp' # listResp
           /\ ~Visible(listResp'.user, listResp'.channelId)) =>
          listResp'.status = 403 /\ listResp'.messages = <<>>
     /\ (repliesResp' # repliesResp /\ Exists(repliesResp'.messageId)
           /\ repliesResp'.status # 500
           /\ ~Visible(repliesResp'.user, Msg(repliesResp'.messageId).channelId)) =>
          repliesResp'.status = 403 /\ repliesResp'.replies = <<>>
     /\ \A r \in Slots :
          (req[r].pc = "idle" /\ req'[r].pc = "write" /\ req'[r].op = "create") =>
            Visible(req'[r].user, req'[r].channelId)]_vars

(***************************************************************************)
(* GET /messages/search/:workspaceId                                       *)
(***************************************************************************)
\* String.prototype.includes after lowering both sides (mode: 'insensitive')
Contains(t, q) ==
  \E i \in 1..(Len(t) - Len(q) + 1) :
    SubSeq(ToLowerCase(t), i, i + Len(q) - 1) = ToLowerCase(q)

\* the channels of workspace w that are public or hold a member row of u
AccessibleChannels(u, w) ==
  {c \in Channels : Chan[c].workspaceId = w /\ (~Chan[c].isPrivate \/ ChRow(u, c))}

\* the channelId condition of the where object: the key written by the
\* spread of { channelId } replaces the key channelId: { in: accessible }
SearchWhereChannel(accessible, channelId) ==
  IF channelId # "-" THEN {channelId} ELSE accessible

SearchResponse(u, w, q, channelId, authorId, status, error, found) ==
  [user |-> u, workspaceId |-> w, q |-> q, channelId |-> channelId,
   authorId |-> authorId, status |-> status, error |-> error, messages |-> found]

\* the handler; "-" stands for a parameter that is not given, limit is
\* absent or a number.  fails: one of the three queries throws.
Search(u, w, q, channelId, authorId, limit, fails) ==
  /\ IF Len(Trim(q)) < 2
       THEN /\ ~fails
            /\ searchResp' = SearchResponse(u, w, q, channelId, authorId, 400,
                 "Search query must be at least 2 characters", <<>>)
     ELSE IF fails
       THEN searchResp' = SearchResponse(u, w, q, channelId, authorId, 500,
                            "Search failed", <<>>)
     ELSE IF ~WsRow(u, w)
       THEN searchResp' = SearchResponse(u, w, q, channelId, authorId, 403,
                            "Not a member of this workspace", <<>>)
     ELSE LET inChannels == SearchWhereChannel(AccessibleChannels(u, w), channelId)
              found == {x \in messages :
                          /\ x.channelId \in inChannels
                          /\ Contains(x.content, Trim(q))
                          /\ authorId # "-" => x.authorId = authorId}
              take == RequestedLimit(limit, DefaultSearchLimit) IN
            \E ord \in Orders(found) :
              searchResp' = SearchResponse(u, w, q, channelId, authorId, 200, "-",
                                           Ids(Take(ord, take.n)))
  /\ UNCHANGED <<listResp, walk, dbVars, sockVars, msgVars, pushVars, chanVars, joinVars, authVars>>

(***************************************************************************)
(* The search specification: messages in the public c1 and the private c2  *)
(* of w1 and in c3 of w2, while u2 joins w1, is added to and removed from  *)
(* its channels by the ADMIN u1, and is removed from w1.                   *)
(***************************************************************************)
SearchRow(i, c, u, content) ==
  [id |-> i, channelId |-> c, authorId |-> u, content |-> content,
   parentId |-> 0, createdAt |-> i]

SearchRows ==
  {SearchRow(1, "c1", "u1", <<"a", "b">>),
   SearchRow(2, "c2", "u1", <<"x", "A", "B">>),
   SearchRow(3, "c3", "u2", <<"a", "b", "y">>),
   SearchRow(4, "c1", "u2", <<"x", "y">>)}

Queries == {<<"a", " ">>, <<" ", "A", "b">>, <<"x", "y">>}

InitSearch ==
  /\ workspaceMember = StoreRowsWs
  /\ channelMember = StoreRowsCh
  /\ conn = [s \in Conns |-> NewConn]
  /\ lastEvent = <<"none", "-">>
  /\ messages = SearchRows
  /\ nextId = Cardinality(SearchRows) + 1
  /\ clock = Cardinality(SearchRows) + 1
  /\ onParentDelete = "Cascade"
  /\ req = [r \in Slots |-> IdleReq]
  /\ lastResp = NoResp
  /\ emitted = <<>>
  /\ pushCalls = <<>>
  /\ listResp = NoList
  /\ walk = NoWalk
  /\ searchResp = NoSearch
  /\ vapid = FALSE
  /\ pushSubscription = {}
  /\ nextSubId = 1
  /\ push = [u \in Users |-> NoJob]
  /\ lastRead = NeverRead
  /\ markResp = NoMark
  /\ unreadResp = NoUnread
  /\ repliesResp = NoReplies
  /\ joinReq = [r \in Slots |-> NoJoin]
  /\ joinResp = NoJoinResp
  /\ refreshToken = {}
  /\ nextTokId = 1
  /\ authReq = [a \in RefreshCalls |-> NoAttempt]
  /\ authResp = NoAuthResp
  /\ clientTokens = NoToken

SearchNext ==
  \/ \E u \in Users, w \in Workspaces, q \in Queries, c \in {"-"} \cup Channels,
        a \in {"-"} \cup Users, l \in {Absent, Given(<<"1">>)}, f \in BOOLEAN :
       Search(u, w, q, c, a, l, f)
  \/ \E w \in Workspaces : JoinWorkspace("u2", w)
  \/ \E w \in Workspaces : RemoveMember("u1", w, "u2")
  \/ \E c \in Channels : AddChannelMember("u1", c, "u2")
  \/ \E c \in Channels : RemoveChannelMember("u1", c, "u2")

SpecSearch == InitSearch /\ [][SearchNext]_vars

\* C1: every message a search returns lies in a channel of the searched
\* workspace that is public or holds a member row of the requester, whatever
\* channelId and authorId filters the request carries.
C1_SearchOnlyVisible ==
  [][dbVars' = dbVars /\ searchResp'.status = 200 =>
       \A i \in 1..Len(searchResp'.messages) :
         Msg(searchResp'.messages[i]).channelId
           \in AccessibleChannels(searchResp'.user, searchResp'.workspaceId)]_vars

(***************************************************************************)
(* The notification specification: u1 posts messages with mentions in c1   *)
(* of w1 (members u1, u2), u2 in c3 of w2 (member u2 only), while u2's two *)
(* push subscriptions are delivered to, pruned, re-subscribed and          *)
(* unsubscribed.                                                           *)
(***************************************************************************)
\* bodies mentioning u2, both users, and nobody
PushContents == {<<"@", "B">>, <<"@", "A", "x", "@", "b">>, <<"@", "b", "x">>}

InitPush ==
  /\ workspaceMember = StoreRowsWs \cup
       {[userId |-> "u2", workspaceId |-> "w1", role |-> "MEMBER"]}
  /\ channelMember = StoreRowsCh \cup {<<"u2", "c1">>}
  /\ conn = [s \in Conns |-> NewConn]
  /\ lastEvent = <<"none", "-">>
  /\ messages = {}
  /\ nextId = 1
  /\ clock = 1
  /\ onParentDelete = "Cascade"
  /\ req = [r \in Slots |-> IdleReq]
  /\ lastResp = NoResp
  /\ emitted = <<>>
  /\ pushCalls = <<>>
  /\ listResp = NoList
  /\ walk = NoWalk
  /\ searchResp = NoSearch
  /\ vapid \in BOOLEAN
  /\ pushSubscription = {[id |-> 1, userId |-> "u2", endpoint |-> "e1"],
                         [id |-> 2, userId |-> "u2", endpoint |-> "e2"]}
  /\ nextSubId = 3
  /\ push = [u \in Users |-> NoJob]
  /\ lastRead = NeverRead
  /\ markResp = NoMark
  /\ unreadResp = NoUnread
  /\ repliesResp = NoReplies
  /\ joinReq = [r \in Slots |-> NoJoin]
  /\ joinResp = NoJoinResp
  /\ refreshToken = {}
  /\ nextTokId = 1
  /\ authReq = [a \in RefreshCalls |-> NoAttempt]
  /\ authResp = NoAuthResp
  /\ clientTokens = NoToken

PushNext ==
  \/ \E t \in PushContents : CreateStart(FreeSlot, "u1", "c1", t, 0, FALSE)
  \/ CreateStart(FreeSlot, "u2", "c3", <<"@", "A", "x", "@", "b">>, 0, FALSE)
  \/ \E r \in Slots, f, g \in BOOLEAN : CreateWrite(r, f, g)
  \/ \E u \in Users, f \in BOOLEAN : PushLookup(u, f)
  \/ \E u \in Users, id \in 1..MaxSubs, st \in DeliveryStatuses :
       PushDeliver(u, id, st)
  \/ \E u \in Users, id \in 1..MaxSubs, f \in BOOLEAN : PushPrune(u, id, f)
  \/ \E e \in ChurnEndpoints : Subscribe("u2", e)
  \/ \E e \in ChurnEndpoints : Unsubscribe("u2", e)

SpecPush == InitPush /\ [][PushNext]_vars

(***************************************************************************)
(* Properties of the push worker                                           *)
(***************************************************************************)
GoneStatus(st) == st \in {404, 410}

\* the deliveries of subscription id that the tracked call of u has settled
Attempts(u, id) == {o \in push[u].outcome : o[1] = id}

PushWorkerStep ==
  \E u \in Users : push[u].pc \in {"lookup", "deliver"} /\ push'[u] # push[u]

\* C13: the create handler answers without waiting for sendPushToUser: in the
\* step that answers 201 every call it made, when tracked, stands at its
\* first await, the subscription query, and the mention event of every user
\* a call was made for is emitted in that step; every later step of a call
\* (query resolved or failed, delivery delivered or rejected, dead endpoint
\* deleted or the delete failing) leaves the response, the events emitted,
\* the messages and the requests in flight as they are.
C13_PushFireAndForget ==
  [][/\ (req' # req /\ lastResp'.op = "create" /\ lastResp'.status = 201) =>
          \A i \in 1..Len(pushCalls') :
            /\ (vapid /\ push[pushCalls'[i]].pc \in {"idle", "done"}) =>
                 push'[pushCalls'[i]].pc = "lookup"
            /\ \E k \in 1..Len(emitted') :
                 /\ emitted'[k].event = "mention"
                 /\ emitted'[k].room = UserRoom(pushCalls'[i])
     /\ PushWorkerStep =>
          /\ lastResp' = lastResp /\ emitted' = emitted
          /\ pushCalls' = pushCalls
          /\ messages' = messages /\ req' = req]_vars

\* the subscription query of the call for u2 has failed (its rows are still
\* stored, none was found) and the sender's 201 and the mention event stand
C13_Witness ==
  /\ push["u2"].pc = "done" /\ push["u2"].subs = {}
  /\ {1, 2} \subseteq SubIds(pushSubscription)
  /\ lastResp = Respond("create", "u1", 201, "-")
  /\ pushCalls = <<"u2">>
  /\ \E k \in 1..Len(emitted) :
       emitted[k].event = "mention" /\ emitted[k].room = UserRoom("u2")

(***************************************************************************)
(* Properties of the mention dispatch                                      *)
(***************************************************************************)
\* a letter, digit or underscore of the alphabet that contents are made of
Alnum(ch) == ch \notin {"@", " "}

\* the @word tokens of a content, without the @: the maximal runs of word
\* characters that follow an @
Tokens(t) ==
  {SubSeq(t, i + 1, j) : <<i, j>> \in
     {p \in (1..Len(t)) \X (1..Len(t)) :
        /\ p[1] < p[2] /\ t[p[1]] = "@"
        /\ \A k \in (p[1] + 1)..p[2] : Alnum(t[k])
        /\ p[2] = Len(t) \/ ~Alnum(t[p[2] + 1])}}

FoldCase(ch) == CASE ch = "A" -> "a" [] ch = "B" -> "b" [] OTHER -> ch

SameIgnoringCase(a, b) ==
  Len(a) = Len(b) /\ \A i \in 1..Len(a) : FoldCase(a[i]) = FoldCase(b[i])

\* the members of the workspace of row's channel named by a token of its content
Mentioned(row) ==
  {u \in Users :
     /\ \E m \in workspaceMember :
          m.userId = u /\ m.workspaceId = Chan[row.channelId].workspaceId
     /\ \E tok \in Tokens(row.content) : SameIgnoringCase(tok, DisplayName[u])}

\* C14: in the step of a create answered 201, each member of the channel's
\* workspace whose display name equals a token of the content, ignoring
\* case, gets exactly one mention event, sent to the personal room and
\* carrying the channel id, the created message and the author, and exactly
\* one sendPushToUser call; every other user gets neither.
C14_MentionsReachNamedMembers ==
  [][(req' # req /\ lastResp'.op = "create" /\ lastResp'.status = 201) =>
       \A row \in messages' \ messages : \A u \in Users :
         LET events == {k \in 1..Len(emitted') :
                          /\ emitted'[k].event = "mention"
                          /\ emitted'[k].room = UserRoom(u)}
             calls == {i \in 1..Len(pushCalls') : pushCalls'[i] = u} IN
           IF u \in Mentioned(row)
             THEN /\ Cardinality(events) = 1
                  /\ \A k \in events :
                       emitted'[k].payload =
                         [channelId |-> row.channelId, message |-> row,
                          mentionedBy |-> row.authorId]
                  /\ Cardinality(calls) = 1
             ELSE events = {} /\ calls = {}]_vars

\* a message naming both users in different case was created: each got a
\* mention event and a push call
C14_Witness ==
  /\ lastResp = Respond("create", "u1", 201, "-")
  /\ Len(pushCalls) = 2
  /\ \A u \in Users : \E k \in 1..Len(emitted) :
       /\ emitted[k].event = "mention" /\ emitted[k].room = UserRoom(u)
       /\ emitted[k].payload.message.content = <<"@", "A", "x", "@", "b">>

(***************************************************************************)
(* POST /channels/:channelId/read and the unread counts of                 *)
(* GET /channels/workspace/:workspaceId                                    *)
(***************************************************************************)
\* time passes
Tick ==
  /\ clock < MaxTime
  /\ clock' = clock + 1
  /\ UNCHANGED <<messages, nextId, onParentDelete, req, lastResp, emitted, pushCalls>>
  /\ UNCHANGED <<dbVars, sockVars, readVars, pushVars, chanVars, joinVars, authVars>>

MarkResponse(u, c, status, error) ==
  [user |-> u, channelId |-> c, status |-> status, error |-> error, at |-> clock]

\* prisma.channelMember.update where userId_channelId: it throws when no row
\* matches
UpdateFindsRow(u, c) == ChRow(u, c)

\* isChannelMember, then the update of the requester's row.  fails: the store
\* throws for another reason
MarkRead(u, c, fails) ==
  /\ IF ChannelGate(u, c)[1] # 200
       THEN /\ ~fails
            /\ markResp' = MarkResponse(u, c, ChannelGate(u, c)[1], ChannelGate(u, c)[2])
            /\ UNCHANGED lastRead
     ELSE IF fails \/ ~UpdateFindsRow(u, c)
       THEN /\ markResp' = MarkResponse(u, c, 500, "Failed to mark as read")
            /\ UNCHANGED lastRead
     ELSE /\ lastRead' = [lastRead EXCEPT ![<<u, c>>] = clock]
          /\ markResp' = MarkResponse(u, c, 200, "-")
  /\ emitted' = <<>>
  /\ UNCHANGED <<messages, nextId, clock, onParentDelete, req, lastResp, pushCalls>>
  /\ UNCHANGED <<unreadResp, repliesResp, dbVars, sockVars, readVars, pushVars, joinVars, authVars>>

\* userMembership?.lastRead || new Date(0)
LastReadOf(u, c) == IF ChRow(u, c) THEN lastRead[<<u, c>>] ELSE 0

\* prisma.message.count of the channel's rows after lastRead by other authors
UnreadCount(u, c) ==
  Cardinality({x \in messages :
                 /\ x.channelId = c
                 /\ x.createdAt > LastReadOf(u, c)
                 /\ x.authorId # u})

\* the channels the list returns: public ones and those the requester is in
ListedChannels(u, w) ==
  {c \in Channels : Chan[c].workspaceId = w /\ (~Chan[c].isPrivate \/ ChRow(u, c))}

\* isWorkspaceMember, then the channel list with its unread counts
GetChannels(u, w) ==
  /\ unreadResp' =
       IF ~WsRow(u, w)
         THEN [user |-> u, workspaceId |-> w, status |-> 403, unreadCount |-> <<>>]
         ELSE [user |-> u, workspaceId |-> w, status |-> 200,
               unreadCount |-> [c \in ListedChannels(u, w) |-> UnreadCount(u, c)]]
  /\ UNCHANGED <<lastRead, markResp, repliesResp>>
  /\ UNCHANGED <<dbVars, sockVars, msgVars, readVars, pushVars, joinVars, authVars>>

\* bodies of the posts that readers count
ReadContents == {<<"x">>}

ReadNext ==
  \/ \E u \in Users, t \in ReadContents : CreateStart("r1", u, "c1", t, 0, FALSE)
  \/ CreateWrite("r1", FALSE, FALSE)
  \/ Tick
  \/ \E u \in Users, f \in BOOLEAN : MarkRead(u, "c1", f)
  \/ \E u \in Users : GetChannels(u, "w1")
  \/ JoinWorkspace("u2", "w1")
  \/ AddChannelMember("u1", "c1", "u2")
  \/ RemoveChannelMember("u1", "c1", "u2")

SpecRead == InitSocket /\ [][ReadNext]_vars

\* C17: whenever a user who passes the channel access check marks a channel
\* read (the store not failing otherwise), the user's lastRead becomes the
\* current time, the request succeeds and nothing is broadcast; and every
\* unread count served is the number of the channel's messages by other
\* authors created after the reader's lastRead, which is 0 for a channel the
\* reader marked read unless another user's message is later than the mark.
C17_MarkReadSetsLastRead ==
  [][/\ \A u \in Users, c \in Channels :
          (MarkRead(u, c, FALSE) /\ ChannelGate(u, c)[1] = 200) =>
            /\ markResp'.status = 200
            /\ lastRead'[<<u, c>>] = clock
            /\ emitted' = <<>>
     /\ \A u \in Users :
          (GetChannels(u, "w1") /\ unreadResp'.status = 200) =>
            \A c \in DOMAIN unreadResp'.unreadCount :
              /\ unreadResp'.unreadCount[c] =
                   Cardinality({x \in messages : x.channelId = c /\ x.authorId # u
                                                 /\ x.createdAt > LastReadOf(u, c)})
              /\ (/\ markResp.user = u /\ markResp.channelId = c
                  /\ markResp.status = 200
                  /\ ChRow(u, c) /\ lastRead[<<u, c>>] >= markResp.at
                  /\ ~\E x \in messages : x.channelId = c /\ x.authorId # u
                                          /\ x.createdAt > markResp.at)
                   => unreadResp'.unreadCount[c] = 0]_vars

(***************************************************************************)
(* POST /workspaces/join/:inviteCode, step by step                         *)
(***************************************************************************)
\* an invite code that no workspace carries
NoSuchInvite == "w0"

InviteTargets == Workspaces \cup {NoSuchInvite}

JoinResponse(u, w, status, error) ==
  [user |-> u, workspaceId |-> w, status |-> status, error |-> error]

PublicChannels(w) == {c \in Channels : Chan[c].workspaceId = w /\ ~Chan[c].isPrivate}

\* the handler up to its $transaction call: the invite lookup, the
\* existingMember check and the public channel query
JoinStart(r, u, w) ==
  /\ joinReq[r].pc = "idle"
  /\ IF w \notin Workspaces
       THEN /\ joinResp' = JoinResponse(u, w, 404, "Invalid invite code")
            /\ UNCHANGED joinReq
     ELSE IF WsRow(u, w)
       THEN /\ joinResp' = JoinResponse(u, w, 400, "Already a member of this workspace")
            /\ UNCHANGED joinReq
     ELSE /\ joinReq' = [joinReq EXCEPT ![r] = [pc |-> "tx", user |-> u, workspaceId |-> w]]
          /\ joinResp' = NoJoinResp
  /\ emitted' = <<>>
  /\ UNCHANGED <<messages, nextId, clock, onParentDelete, req, lastResp, pushCalls>>
  /\ UNCHANGED <<dbVars, sockVars, readVars, pushVars, chanVars, authVars>>

\* the creates of the transaction hit no unique constraint
TransactionFits(u, w) ==
  /\ ~WsRow(u, w)
  /\ \A c \in PublicChannels(w) : ~ChRow(u, c)

\* the $transaction commits all its creates or none; then the workspace is
\* read back, member:joined is emitted and the workspace is returned.
\* txFails: the transaction throws for another reason; readFails: the read
\* after the commit throws
JoinCommit(r, txFails, readFails) ==
  /\ joinReq[r].pc = "tx"
  /\ LET u == joinReq[r].user
         w == joinReq[r].workspaceId
         ok == TransactionFits(u, w) /\ ~txFails IN
       /\ readFails => ok
       /\ IF ok
            THEN /\ workspaceMember' = workspaceMember \cup
                       {[userId |-> u, workspaceId |-> w, role |-> "MEMBER"]}
                 /\ channelMember' = channelMember \cup
                       {<<u, c>> : c \in PublicChannels(w)}
            ELSE UNCHANGED dbVars
       /\ emitted' = IF ok /\ ~readFails
                       THEN <<Emit("member:joined", WorkspaceRoom(w),
                                   [workspaceId |-> w, user |-> u])>>
                       ELSE <<>>
       /\ joinResp' = IF ok /\ ~readFails
                        THEN JoinResponse(u, w, 200, "-")
                        ELSE JoinResponse(u, w, 500, "Failed to join workspace")
  /\ joinReq' = [joinReq EXCEPT ![r] = NoJoin]
  /\ UNCHANGED <<messages, nextId, clock, onParentDelete, req, lastResp, pushCalls>>
  /\ UNCHANGED <<sockVars, readVars, pushVars, chanVars, authVars>>

JoinNext ==
  \/ \E r \in Slots, u \in Users, w \in InviteTargets : JoinStart(r, u, w)
  \/ \E r \in Slots, f \in BOOLEAN, g \in BOOLEAN : JoinCommit(r, f, g)
  \/ \E a \in Users, w \in Workspaces, u \in Users : RemoveMember(a, w, u)
  \/ \E a \in Users, c \in Channels, u \in Users : AddChannelMember(a, c, u)
  \/ \E a \in Users, c \in Channels, u \in Users : RemoveChannelMember(a, c, u)

SpecJoin == InitSocket /\ [][JoinNext]_vars

\* C18: however join-by-invite requests of one user interleave, a join whose
\* transaction has run (the store not failing otherwise) leaves exactly one
\* WorkspaceMember row of the user in the workspace (rows are unique by their
\* key, so there is at most one ChannelMember row per channel), and every
\* join step writes either the workspace row together with all its public
\* channel rows or nothing.
C18_JoinIdempotent ==
  [][\A r \in Slots :
       LET u == joinReq[r].user
           w == joinReq[r].workspaceId IN
         /\ (\E f, g \in BOOLEAN : JoinCommit(r, f, g)) =>
              \/ UNCHANGED dbVars
              \/ /\ ~WsRow(u, w)
                 /\ \A c \in PublicChannels(w) : ~ChRow(u, c)
                 /\ workspaceMember' = workspaceMember \cup
                      {[userId |-> u, workspaceId |-> w, role |-> "MEMBER"]}
                 /\ channelMember' = channelMember \cup
                      {<<u, c>> : c \in PublicChannels(w)}
         /\ (\E g \in BOOLEAN : JoinCommit(r, FALSE, g)) =>
              Cardinality({m \in workspaceMember' :
                             m.userId = u /\ m.workspaceId = w}) = 1]_vars

(***************************************************************************)
(* PUT and DELETE /messages/:messageId with the store's answer in flight:  *)
(* the store applies the write, and the handler goes on after its await    *)
(* when the answer has reached it; other handlers run in between.          *)
(* EditWrite and DeleteWrite are the runs in which nothing runs in between.*)
(***************************************************************************)
\* the request record while the store's answer is on its way to the handler
Answered(q, ok, row) ==
  [pc |-> "resume", op |-> q.op, user |-> q.user, channelId |-> q.channelId,
   messageId |-> q.messageId, content |-> q.content, parentId |-> q.parentId,
   ok |-> ok, row |-> row]

\* prisma.message.update applied by the store, or thrown (no row, or fails)
EditCommit(r, writeFails) ==
  /\ req[r].pc = "write" /\ req[r].op = "edit"
  /\ LET q == req[r]
         ok == ~(writeFails \/ ~Exists(q.messageId))
         updated == [Msg(q.messageId) EXCEPT !.content = Trim(q.content)] IN
       IF ok
         THEN /\ messages' = (messages \ {Msg(q.messageId)}) \cup {updated}
              /\ req' = [req EXCEPT ![r] = Answered(q, TRUE, updated)]
         ELSE /\ UNCHANGED messages
              /\ req' = [req EXCEPT ![r] = Answered(q, FALSE, <<>>)]
  /\ lastResp' = NoResp /\ emitted' = <<>> /\ pushCalls' = <<>>
  /\ UNCHANGED <<nextId, clock, onParentDelete, dbVars, sockVars, readVars, pushVars, chanVars, joinVars, authVars>>

\* the edit handler after its await: the broadcast and the response
EditResume(r) ==
  /\ req[r].pc = "resume" /\ req[r].op = "edit"
  /\ LET q == req[r] IN
       /\ emitted' = IF q.ok
                       THEN <<Emit("message:updated", ChannelRoom(q.channelId), q.row)>>
                       ELSE <<>>
       /\ lastResp' = IF q.ok THEN Respond("edit", q.user, 200, "-")
                              ELSE Respond("edit", q.user, 500, "Failed to update message")
  /\ req' = [req EXCEPT ![r] = IdleReq]
  /\ pushCalls' = <<>>
  /\ UNCHANGED <<messages, nextId, clock, onParentDelete, dbVars, sockVars, readVars, pushVars, chanVars, joinVars, authVars>>

\* prisma.message.delete applied by the store, or thrown (no row, or fails)
DeleteCommit(r, writeFails) ==
  /\ req[r].pc = "write" /\ req[r].op = "delete"
  /\ LET q == req[r]
         ok == ~(writeFails \/ ~Exists(q.messageId)) IN
       IF ok
         THEN /\ messages' = AfterDelete(q.messageId)
              /\ req' = [req EXCEPT ![r] = Answered(q, TRUE, <<>>)]
         ELSE /\ UNCHANGED messages
              /\ req' = [req EXCEPT ![r] = Answered(q, FALSE, <<>>)]
  /\ lastResp' = NoResp /\ emitted' = <<>> /\ pushCalls' = <<>>
  /\ UNCHANGED <<nextId, clock, onParentDelete, dbVars, sockVars, readVars, pushVars, chanVars, joinVars, authVars>>

\* the delete handler after its await: the broadcast and the response
DeleteResume(r) ==
  /\ req[r].pc = "resume" /\ req[r].op = "delete"
  /\ LET q == req[r] IN
       /\ emitted' = IF q.ok
                       THEN <<Emit("message:deleted", ChannelRoom(q.channelId),
                                   [messageId |-> q.messageId, parentId |-> q.parentId])>>
                       ELSE <<>>
       /\ lastResp' = IF q.ok THEN Respond("delete", q.user, 200, "-")
                              ELSE Respond("delete", q.user, 500, "Failed to delete message")
  /\ req' = [req EXCEPT ![r] = IdleReq]
  /\ pushCalls' = <<>>
  /\ UNCHANGED <<messages, nextId, clock, onParentDelete, dbVars, sockVars, readVars, pushVars, chanVars, joinVars, authVars>>

\* bodies of the posts and of the edits
TerminalContents == {<<"x">>}

TerminalEdits == {<<"y">>}

TerminalNext ==
  \/ \E u \in Users, t \in TerminalContents : CreateStart(FreeSlot, u, "c1", t, 0, FALSE)
  \/ \E r \in Slots : CreateWrite(r, FALSE, FALSE)
  \/ \E u \in Users, m \in MsgIds, t \in TerminalEdits : EditStart(FreeSlot, u, m, t)
  \/ \E r \in Slots, f \in BOOLEAN : EditCommit(r, f)
  \/ \E r \in Slots : EditResume(r)
  \/ \E u \in Users, m \in MsgIds : DeleteStart(FreeSlot, u, m)
  \/ \E r \in Slots, f \in BOOLEAN : DeleteCommit(r, f)
  \/ \E r \in Slots : DeleteResume(r)

SpecTerminal == InitMsg /\ [][TerminalNext]_vars

\* message m was stored once and its row is gone
Deleted(m) == m < nextId /\ ~Exists(m)

\* the message:deleted of m has been broadcast: m is deleted and the handler
\* whose delete removed it has gone on after its await
DeletedBroadcast(m) ==
  /\ Deleted(m)
  /\ ~\E r \in Slots : /\ req[r].pc = "resume" /\ req[r].op = "delete"
                       /\ req[r].ok /\ req[r].messageId = m

\* the step broadcasts a message:updated of m
UpdatedBroadcastOf(m) ==
  \E i \in 1..Len(emitted') :
    emitted'[i].event = "message:updated" /\ emitted'[i].payload.id = m

\* C20: a deleted message stays deleted under every interleaving of edit and
\* delete requests for it: its row is never stored again, changed or not,
\* and once its message:deleted has been broadcast no step broadcasts a
\* message:updated for it.
C20_DeletedIsTerminal ==
  [][\A m \in MsgIds :
       /\ Deleted(m) => ~Exists(m)'
       /\ DeletedBroadcast(m) => ~UpdatedBroadcastOf(m)]_vars

(***************************************************************************)
(* Typing signals: socket.on('typing:start') and socket.on('typing:stop')  *)
(***************************************************************************)
\* socket.to(room).emit(event, payload): a broadcast to the sockets that are
\* in the room, the sending socket left out
Relay(s, event, room, payload) ==
  [event |-> event, room |-> room, payload |-> payload, from |-> s]

\* the sockets a relayed event reaches
Receivers(e) == {t \in Conns : e.room \in conn[t].rooms /\ t # e.from}

\* socket.on('typing:start', async (channelId) => ...): the handler relays
\* without looking at the socket's rooms
TypingStart(s, c) ==
  /\ conn[s].state = "open" /\ conn[s].handlers
  /\ lastEvent' = <<"typing:start", c>>
  /\ emitted' = <<Relay(s, "typing:start", ChannelRoom(c),
                         [channelId |-> c,
                          user |-> [id |-> conn[s].user,
                                    displayName |-> DisplayName[conn[s].user]]])>>
  /\ UNCHANGED <<conn, messages, nextId, clock, onParentDelete, req, lastResp, pushCalls>>
  /\ UNCHANGED <<dbVars, readVars, pushVars, chanVars, joinVars, authVars>>

\* socket.on('typing:stop', (channelId) => ...)
TypingStop(s, c) ==
  /\ conn[s].state = "open" /\ conn[s].handlers
  /\ lastEvent' = <<"typing:stop", c>>
  /\ emitted' = <<Relay(s, "typing:stop", ChannelRoom(c),
                         [channelId |-> c, userId |-> conn[s].user])>>
  /\ UNCHANGED <<conn, messages, nextId, clock, onParentDelete, req, lastResp, pushCalls>>
  /\ UNCHANGED <<dbVars, readVars, pushVars, chanVars, joinVars, authVars>>

\* the tokens the typing sockets present
TypingCredentials == {[kind |-> "valid", userId |-> u] : u \in Users}

TypingNext ==
  \/ \E s \in Conns, cred \in TypingCredentials : Handshake(s, cred, FALSE)
  \/ \E s \in Conns : ConnectionStart(s)
  \/ \E s \in Conns : ConnectionResolve(s)
  \/ \E s \in Conns, c \in Channels : ChannelJoin(s, c, FALSE)
  \/ \E s \in Conns, c \in Channels : ChannelLeave(s, c)
  \/ \E s \in Conns, c \in JoinArgs : TypingStart(s, c)
  \/ \E s \in Conns, c \in JoinArgs : TypingStop(s, c)
  \/ JoinWorkspace("u2", "w1")
  \/ AddChannelMember("u1", "c2", "u2")

SpecTyping == InitSocket /\ [][TypingNext]_vars

\* the step is a typing signal of socket s for channel c
TypingStep(s, c) == TypingStart(s, c) \/ TypingStop(s, c)

\* C21: a typing:start or typing:stop of a socket for channel c reaches
\* another socket only if c's room is in the sender's room set; when the
\* sender is in the room the signal reaches every other socket of the room
\* and never the sender, and a typing:start that repeats the one before is
\* forwarded again.
C21_TypingScopedBySenderRooms ==
  [][\A s \in Conns, c \in JoinArgs :
       TypingStep(s, c) =>
         /\ (\E i \in 1..Len(emitted') : Receivers(emitted'[i]) # {})
              => ChannelRoom(c) \in conn[s].rooms
         /\ ChannelRoom(c) \in conn[s].rooms =>
              /\ Len(emitted') = 1
              /\ emitted'[1].room = ChannelRoom(c)
              /\ Receivers(emitted'[1]) =
                   {t \in Conns : ChannelRoom(c) \in conn[t].rooms} \ {s}]_vars

(***************************************************************************)
(* Persistence failures in the gateway's handlers                          *)
(***************************************************************************)
\* The membership query of the connection listener rejects and nothing
\* catches it: the rejection of the async listener is unhandled.  Where the
\* runtime only reports an unhandled rejection the socket stays as
\* ConnectionResolveFails leaves it; where it ends the process on one, every
\* socket of the server goes down with it.
ConnectionResolveCrash(s) ==
  /\ conn[s].state = "resolving"
  /\ conn' = [t \in Conns |->
                IF conn[t].state \in {"authed", "resolving", "open"}
                  THEN [conn[t] EXCEPT !.state = "closed", !.rooms = {},
                                       !.handlers = FALSE]
                  ELSE conn[t]]
  /\ lastEvent' = <<"connection", "-">>
  /\ UNCHANGED <<dbVars, msgVars, readVars, pushVars, chanVars, joinVars, authVars>>

FailureNext ==
  \/ \E s \in Conns, cred \in TypingCredentials, f \in BOOLEAN : Handshake(s, cred, f)
  \/ \E s \in Conns : ConnectionStart(s)
  \/ \E s \in Conns : ConnectionResolve(s)
  \/ \E s \in Conns : ConnectionResolveFails(s)
  \/ \E s \in Conns : ConnectionResolveCrash(s)
  \/ \E s \in Conns, c \in JoinArgs, f \in BOOLEAN : ChannelJoin(s, c, f)
  \/ \E s \in Conns, c \in Channels : ChannelLeave(s, c)
  \/ \E s \in Conns, w \in Workspaces, f \in BOOLEAN : WorkspaceJoin(s, w, f)
  \/ JoinWorkspace("u2", "w1")

SpecFailure == InitSocket /\ [][FailureNext]_vars

\* the step is one in which a store call of a handler of socket s failed
FailedIn(s) ==
  \/ ConnectionResolveFails(s)
  \/ ConnectionResolveCrash(s)
  \/ \E c \in JoinArgs : ChannelJoin(s, c, TRUE)
  \/ \E w \in Workspaces : WorkspaceJoin(s, w, TRUE)

\* C22: a store failure in a handler of a socket (the room resolution at
\* connect, channel:join, workspace:join) is dropped: after the step the
\* socket is open with its handlers registered and the rooms it had, and no
\* other socket has changed.
C22_FailureKeepsConnection ==
  [][\A s \in Conns :
       FailedIn(s) =>
         /\ conn'[s].state = "open"
         /\ conn'[s].handlers
         /\ conn[s].rooms \subseteq conn'[s].rooms
         /\ \A t \in Conns \ {s} : conn'[t] = conn[t]]_vars

\* the step is a step of a create request
CreateStep ==
  \/ \E r \in Slots, f, g \in BOOLEAN : CreateWrite(r, f, g)
  \/ \E u \in Users, c \in MsgChannels, t \in CreateContents,
        p \in {0} \cup MsgIds, f \in BOOLEAN : CreateStart(FreeSlot, u, c, t, p, f)

\* the step broadcasts a created message to its channel room
CreateBroadcastSent ==
  \E i \in 1..Len(emitted') : emitted'[i].event \in {"message:new", "message:reply"}

\* C23: a create request answered with a failure has stored no message and
\* broadcast no message:new or message:reply, and a create step that stores
\* and broadcasts a message answers 201.
C23_CreateAllOrNothing ==
  [][CreateStep =>
       /\ (lastResp'.status \notin {0, 201}) =>
            /\ messages' = messages
            /\ ~CreateBroadcastSent
       /\ (messages' # messages /\ CreateBroadcastSent) =>
            lastResp'.status = 201]_vars

(***************************************************************************)
(* Messages of the private channel c2 and the sockets they reach: u1 posts *)
(* and edits in c2 while u2, a member of w1 without a row in c2, connects; *)
(* ChannelMember rows are only added, so holding a row now is having held  *)
(* one ever.                                                               *)
(***************************************************************************)
PrivateContents == {<<"x">>, <<"@", "b">>}

PrivateNext ==
  \/ \E s \in Conns, cred \in TypingCredentials : Handshake(s, cred, FALSE)
  \/ \E s \in Conns : ConnectionStart(s)
  \/ \E s \in Conns : ConnectionResolve(s)
  \/ \E s \in Conns : ChannelJoin(s, "c2", FALSE)
  \/ \E t \in PrivateContents, p \in {0, 1} : CreateStart("r1", "u1", "c2", t, p, FALSE)
  \/ CreateWrite("r1", FALSE, FALSE)
  \/ \E m \in MsgIds, t \in PrivateContents : EditStart("r1", "u1", m, t)
  \/ EditWrite("r1", FALSE)
  \/ AddChannelMember("u1", "c2", "u2")

SpecPrivate == InitMsg /\ [][PrivateNext]_vars

\* the channel of the message that a real-time event carries, "-" if none
CarriedChannel(e) ==
  CASE e.event \in {"message:new", "message:updated"} -> e.payload.channelId
    [] e.event = "message:reply" -> e.payload.message.channelId
    [] e.event = "mention" -> e.payload.message.channelId
    [] OTHER -> "-"

\* the sockets that an event sent with io.to(room) reaches
Reached(e) == {s \in Conns : e.room \in conn[s].rooms}

\* the step is the write step of a message request
MessageWriteStep == \E r \in Slots : req[r].pc = "write" /\ req'[r].pc = "idle"

\* C24: no message:new, message:reply, message:updated or mention event that
\* carries a message of a private channel reaches a socket of a user who has
\* never held a ChannelMember row of that channel.
C24_PrivateContentStaysPrivate ==
  [][MessageWriteStep =>
       \A i \in 1..Len(emitted') :
         LET e == emitted'[i]
             c == CarriedChannel(e) IN
           (c \in Channels /\ Chan[c].isPrivate) =>
             \A s \in Reached(e) : ChRow(conn[s].user, c)]_vars

(***************************************************************************)
(* A user in and out of workspace w1: u2 joins w1, is added to the private *)
(* channel c2 and is removed from w1 by the admin, while it connects, asks *)
(* to join channel rooms and lists and posts messages.                     *)
(***************************************************************************)
RemovedNext ==
  \/ \E cred \in TypingCredentials : Handshake("s1", cred, FALSE)
  \/ ConnectionStart("s1")
  \/ ConnectionResolve("s1")
  \/ \E c \in Channels : ChannelJoin("s1", c, FALSE)
  \/ \E c \in Channels : ChannelLeave("s1", c)
  \/ \E c \in MsgChannels : ListTopLevel("u2", c, 0, Absent, FALSE)
  \/ \E c \in MsgChannels : CreateStart("r1", "u2", c, <<"x">>, 0, FALSE)
  \/ CreateWrite("r1", FALSE, FALSE)
  \/ JoinWorkspace("u2", "w1")
  \/ RemoveMember("u1", "w1", "u2")
  \/ AddChannelMember("u1", "c2", "u2")

SpecRemoved == InitSocket /\ [][RemovedNext]_vars

\* user u holds no WorkspaceMember row of the workspace of channel c
Outsider(u, c) == ~WsRow(u, Chan[c].workspaceId)

\* C25: while a user holds no WorkspaceMember row of a channel's workspace,
\* a channel:join of the user's socket for that channel adds no room, and a
\* list or create request of the user for that channel is refused and
\* writes nothing, whatever ChannelMember rows the user holds.
C25_OutsiderStaysOut ==
  [][/\ \A c \in Channels :
          (ChannelJoin("s1", c, FALSE) /\ Outsider(conn["s1"].user, c)) =>
            ChannelRoom(c) \notin conn'["s1"].rooms \ conn["s1"].rooms
     /\ \A c \in MsgChannels :
          (ListTopLevel("u2", c, 0, Absent, FALSE) /\ Outsider("u2", c)) =>
            listResp'.status = 403
     /\ \A c \in MsgChannels :
          (CreateStart("r1", "u2", c, <<"x">>, 0, FALSE) /\ Outsider("u2", c)) =>
            /\ lastResp'.status = 403
            /\ req' = req]_vars

(***************************************************************************)
(* Concurrent edits of one message by its author                           *)
(***************************************************************************)
\* the bodies of the two edits
RacingEdits == {<<"y">>, <<"z">>}

EditsNext ==
  \/ CreateStart(FreeSlot, "u1", "c1", <<"x">>, 0, FALSE)
  \/ \E r \in Slots : CreateWrite(r, FALSE, FALSE)
  \/ \E m \in MsgIds, t \in RacingEdits : EditStart(FreeSlot, "u1", m, t)
  \/ \E r \in Slots, f \in BOOLEAN : EditCommit(r, f)
  \/ \E r \in Slots : EditResume(r)

SpecEdits == InitMsg /\ [][EditsNext]_vars

\* an edit of message m other than the one in slot r is still under way
OtherEditOf(m, r) ==
  \E o \in Slots \ {r} : req[o].op = "edit" /\ req[o].messageId = m

\* C26: when the last of the edit requests under way on a message completes
\* with a broadcast, that message:updated, the last one emitted for the
\* message, carries the row as it is stored.
C26_LastUpdateIsStored ==
  [][\A r \in Slots :
       (EditResume(r) /\ req[r].ok /\ ~OtherEditOf(req[r].messageId, r)) =>
         /\ Len(emitted') = 1
         /\ emitted'[1].event = "message:updated"
         /\ emitted'[1].payload = Msg(req[r].messageId)]_vars

(***************************************************************************)
(* DELETE and PUT /workspaces/:workspaceId/members/:userId, step by step:  *)
(* isWorkspaceAdmin, the only-admin count when the admin acts on itself,   *)
(* then the delete or the update.                                          *)
(***************************************************************************)
\* the roles a role update can carry; "OWNER" is none of the schema's
RoleArgs == {"ADMIN", "MEMBER", "OWNER"}

AdminReq(pc, op, a, w, target, role) ==
  [pc |-> pc, op |-> op, user |-> a, workspaceId |-> w, target |-> target,
   role |-> role]

\* the handler counts the admins only when the requester acts on itself
CountsAdmins(op, a, target, role) ==
  target = a /\ (op = "remove" \/ role = "MEMBER")

\* isWorkspaceAdmin, then the handler up to its first store call
AdminStart(r, a, w, op, target, role) ==
  /\ Takes(r)
  /\ op = "remove" => role = "-"
  /\ op = "role" => role \in RoleArgs
  /\ IF WsRole(a, w) # "ADMIN"
       THEN /\ lastResp' = Respond(op, a, 403, "Admin access required")
            /\ UNCHANGED req
     ELSE IF op = "role" /\ role \notin {"ADMIN", "MEMBER"}
       THEN /\ lastResp' = Respond(op, a, 400, "Invalid role")
            /\ UNCHANGED req
     ELSE /\ req' = [req EXCEPT ![r] =
                       AdminReq(IF CountsAdmins(op, a, target, role)
                                  THEN "count" ELSE "write",
                                op, a, w, target, role)]
          /\ lastResp' = NoResp
  /\ emitted' = <<>> /\ pushCalls' = <<>>
  /\ UNCHANGED <<messages, nextId, clock, onParentDelete, dbVars, sockVars, readVars, pushVars, chanVars, joinVars, authVars>>

\* prisma.workspaceMember.count({ where: { workspaceId, role: 'ADMIN' } })
AdminCheck(r) ==
  /\ req[r].pc = "count"
  /\ LET q == req[r] IN
       IF AdminCount(q.workspaceId) = 1
         THEN /\ lastResp' = Respond(q.op, q.user, 400,
                                     IF q.op = "remove"
                                       THEN "Cannot remove the only admin"
                                       ELSE "Cannot demote the only admin")
              /\ req' = [req EXCEPT ![r] = IdleReq]
         ELSE /\ lastResp' = NoResp
              /\ req' = [req EXCEPT ![r] = [q EXCEPT !.pc = "write"]]
  /\ emitted' = <<>> /\ pushCalls' = <<>>
  /\ UNCHANGED <<messages, nextId, clock, onParentDelete, dbVars, sockVars, readVars, pushVars, chanVars, joinVars, authVars>>

\* prisma.workspaceMember.delete or update resolved or threw (it throws when
\* the row is gone); a removal is announced to the workspace room
AdminWrite(r, writeFails) ==
  /\ req[r].pc = "write" /\ req[r].op \in {"remove", "role"}
  /\ LET q == req[r]
         ok == ~writeFails /\ WsRow(q.target, q.workspaceId)
         others == {m \in workspaceMember :
                      ~(m.userId = q.target /\ m.workspaceId = q.workspaceId)} IN
       /\ workspaceMember' =
            IF ~ok THEN workspaceMember
            ELSE IF q.op = "remove" THEN others
            ELSE others \cup {[userId |-> q.target, workspaceId |-> q.workspaceId,
                               role |-> q.role]}
       /\ emitted' = IF ok /\ q.op = "remove"
                       THEN <<Emit("member:removed", WorkspaceRoom(q.workspaceId),
                                   [workspaceId |-> q.workspaceId, userId |-> q.target])>>
                       ELSE <<>>
       /\ lastResp' = IF ok THEN Respond(q.op, q.user, 200, "-")
                      ELSE Respond(q.op, q.user, 500,
                                   IF q.op = "remove" THEN "Failed to remove member"
                                   ELSE "Failed to update member role")
  /\ req' = [req EXCEPT ![r] = IdleReq]
  /\ pushCalls' = <<>>
  /\ UNCHANGED <<channelMember, messages, nextId, clock, onParentDelete, sockVars, readVars, pushVars, chanVars, joinVars, authVars>>

AdminNext ==
  \/ \E a, t \in Users : AdminStart(FreeSlot, a, "w1", "remove", t, "-")
  \/ \E a, t \in Users, role \in RoleArgs : AdminStart(FreeSlot, a, "w1", "role", t, role)
  \/ \E r \in Slots : AdminCheck(r)
  \/ \E r \in Slots, f \in BOOLEAN : AdminWrite(r, f)
  \/ JoinWorkspace("u2", "w1")

SpecAdmin == InitSocket /\ [][AdminNext]_vars

\* C27: every workspace has at least one member with role ADMIN in every
\* state, however the remove-member and update-role requests of its admins
\* interleave.
C27_AlwaysAnAdmin == \A w \in Workspaces : AdminCount(w) >= 1

\* ---------------------------------------------------------------------------
\* Refresh tokens: generateTokens, POST /auth/login, /auth/refresh, /auth/logout
\* ---------------------------------------------------------------------------

\* jwt.sign({ userId, type: 'refresh' }, secret, { expiresIn: '30d' }): the
\* token string is a function of the payload, and the only part of the payload
\* that moves is iat, the second of issuance
JwtSign(u, t) == [userId |-> u, iat |-> t]

\* the token strings of the RefreshToken rows
StoredTokens == {row.token : row \in refreshToken}

\* the refresh tokens a caller can present: none, or anything the server can
\* have signed for the one user who logs in
PresentedTokens == {NoToken} \cup {JwtSign("u1", t) : t \in 1..MaxTime}

AuthResponse(op, tok, status, error, issued) ==
  [op |-> op, token |-> tok, status |-> status, error |-> error, issued |-> issued]

\* refreshToken.create of generateTokens: token is the unique key the refresh
\* route looks rows up by, so a second row with the same string is refused
GenerateTokensFits(u) == JwtSign(u, clock) \notin StoredTokens

\* the data every auth step leaves alone
AuthFrame ==
  UNCHANGED <<dbVars, sockVars, msgVars, readVars, pushVars, chanVars, joinVars>>

\* POST /auth/login with valid credentials; createFails is a database failure
\* of refreshToken.create
Login(u, createFails) ==
  /\ IF ~createFails /\ GenerateTokensFits(u)
       THEN /\ refreshToken' = refreshToken \cup
                 {[id |-> nextTokId, token |-> JwtSign(u, clock)]}
            /\ nextTokId' = nextTokId + 1
            /\ authResp' = AuthResponse("login", NoToken, 200, "-", JwtSign(u, clock))
       ELSE /\ UNCHANGED <<refreshToken, nextTokId>>
            /\ authResp' = AuthResponse("login", NoToken, 500, "Login failed", NoToken)
  /\ UNCHANGED <<authReq, clientTokens>>
  /\ AuthFrame

\* the refresh request of call a has been answered: a call made by the
\* client's ApiService waits for its fetch to resolve, any other caller is done
AnswerRefresh(a, status, error, issued) ==
  /\ authResp' = AuthResponse("refresh", authReq[a].token, status, error, issued)
  /\ authReq' = [authReq EXCEPT ![a] =
       IF authReq[a].client
         THEN [@ EXCEPT !.pc = "answered", !.status = status, !.issued = issued]
         ELSE NoAttempt]

\* a caller other than the ApiService posts /auth/refresh with tok in the body
RefreshSend(a, tok) ==
  /\ authReq[a].pc = "idle"
  /\ authReq' = [authReq EXCEPT ![a] = [NoAttempt EXCEPT !.pc = "sent", !.token = tok]]
  /\ UNCHANGED <<refreshToken, nextTokId, authResp, clientTokens>>
  /\ AuthFrame

\* POST /auth/refresh up to the revocation check: body check, jwt.verify (every
\* presented token carries the server's signature and type 'refresh'), findUnique
RefreshStart(a) ==
  /\ authReq[a].pc = "sent"
  /\ LET tok == authReq[a].token
         rows == {row \in refreshToken : row.token = tok}
     IN  IF tok = NoToken
           THEN AnswerRefresh(a, 400, "Refresh token required", NoToken)
         ELSE IF rows = {}
           THEN AnswerRefresh(a, 401, "Refresh token has been revoked", NoToken)
         ELSE /\ authReq' = [authReq EXCEPT ![a].pc = "delete",
                                           ![a].rowId = (CHOOSE row \in rows : TRUE).id]
              /\ UNCHANGED authResp
  /\ UNCHANGED <<refreshToken, nextTokId, clientTokens>>
  /\ AuthFrame

\* refreshToken.delete({ where: { id: storedToken.id } }): throws when the row
\* is gone or the database fails, and the catch-all answers 500
RefreshDelete(a, deleteFails) ==
  /\ authReq[a].pc = "delete"
  /\ LET rows == {row \in refreshToken : row.id = authReq[a].rowId}
     IN  IF rows = {} \/ deleteFails
           THEN /\ AnswerRefresh(a, 500, "Token refresh failed", NoToken)
                /\ UNCHANGED refreshToken
           ELSE /\ refreshToken' = refreshToken \ rows
                /\ authReq' = [authReq EXCEPT ![a].pc = "create"]
                /\ UNCHANGED authResp
  /\ UNCHANGED <<nextTokId, clientTokens>>
  /\ AuthFrame

\* generateTokens(user.id) and res.json of the refresh route
RefreshCreate(a, createFails) ==
  /\ authReq[a].pc = "create"
  /\ LET u == authReq[a].token.userId
     IN  IF ~createFails /\ GenerateTokensFits(u)
           THEN /\ refreshToken' = refreshToken \cup
                     {[id |-> nextTokId, token |-> JwtSign(u, clock)]}
                /\ nextTokId' = nextTokId + 1
                /\ AnswerRefresh(a, 200, "-", JwtSign(u, clock))
           ELSE /\ UNCHANGED <<refreshToken, nextTokId>>
                /\ AnswerRefresh(a, 500, "Token refresh failed", NoToken)
  /\ UNCHANGED clientTokens
  /\ AuthFrame

\* POST /auth/logout: deleteMany by token string; the catch block answers the
\* same success message
Logout(tok, deleteFails) ==
  /\ refreshToken' = IF tok # NoToken /\ ~deleteFails
                       THEN {row \in refreshToken : row.token # tok}
                       ELSE refreshToken
  /\ authResp' = AuthResponse("logout", tok, 200, "Logged out successfully", NoToken)
  /\ UNCHANGED <<nextTokId, authReq, clientTokens>>
  /\ AuthFrame

\* the RefreshToken ids are bounded so that the state space is finite
MaxTokIds == 4

RefreshNext ==
  \/ \E f \in BOOLEAN : nextTokId <= MaxTokIds /\ Login("u1", f)
  \/ \E a \in RefreshCalls, tok \in PresentedTokens : RefreshSend(a, tok)
  \/ \E a \in RefreshCalls : RefreshStart(a)
  \/ \E a \in RefreshCalls, f \in BOOLEAN : RefreshDelete(a, f)
  \/ \E a \in RefreshCalls, f \in BOOLEAN :
       (f \/ nextTokId <= MaxTokIds) /\ RefreshCreate(a, f)
  \/ \E tok \in PresentedTokens, f \in BOOLEAN : Logout(tok, f)
  \/ Tick

SpecRefresh == InitSocket /\ [][RefreshNext]_vars

\* a refresh request presenting tok is answered 200 in this step
RefreshSucceeds(tok) ==
  \E a \in RefreshCalls :
    /\ authReq[a].token = tok
    /\ RefreshCreate(a, FALSE)
    /\ authResp'.status = 200

\* C28: a refresh token is single-use. A refresh that succeeds leaves the
\* presented token revoked, a logout presenting a token leaves it revoked, and
\* a refresh request presenting a token without a row is rejected with nothing
\* issued; so no two refreshes of one token succeed.
C28_RefreshTokenSingleUse ==
  [][/\ \A tok \in PresentedTokens \ {NoToken} :
          /\ RefreshSucceeds(tok) => tok \notin StoredTokens'
          /\ (\E f \in BOOLEAN : Logout(tok, f)) => tok \notin StoredTokens'
     /\ \A a \in RefreshCalls :
          (RefreshStart(a) /\ authReq[a].token \notin StoredTokens)
            => /\ authResp'.status \in {400, 401}
               /\ authResp'.issued = NoToken
               /\ refreshToken' = refreshToken]_vars

\* ---------------------------------------------------------------------------
\* The client's ApiService: setTokens, clearTokens, refreshAccessToken
\* ---------------------------------------------------------------------------

\* api.login: the POST /auth/login round trip of a logged-out client, and
\* setTokens with the pair of the response; a failed login throws before
\* setTokens
ClientLogin(createFails) ==
  /\ clientTokens = NoToken
  /\ IF ~createFails /\ GenerateTokensFits("u1")
       THEN /\ refreshToken' = refreshToken \cup
                 {[id |-> nextTokId, token |-> JwtSign("u1", clock)]}
            /\ nextTokId' = nextTokId + 1
            /\ authResp' = AuthResponse("login", NoToken, 200, "-", JwtSign("u1", clock))
            /\ clientTokens' = JwtSign("u1", clock)
       ELSE /\ UNCHANGED <<refreshToken, nextTokId, clientTokens>>
            /\ authResp' = AuthResponse("login", NoToken, 500, "Login failed", NoToken)
  /\ UNCHANGED authReq
  /\ AuthFrame

\* request() saw a 401 while this.refreshToken is set and calls
\* refreshAccessToken, which posts the refresh token stored at that moment
ClientRefresh(a) ==
  /\ authReq[a].pc = "idle"
  /\ clientTokens # NoToken
  /\ authReq' = [authReq EXCEPT ![a] =
       [NoAttempt EXCEPT !.pc = "sent", !.token = clientTokens, !.client = TRUE]]
  /\ UNCHANGED <<refreshToken, nextTokId, authResp, clientTokens>>
  /\ AuthFrame

\* the fetch of refreshAccessToken resolves: setTokens when response.ok,
\* clearTokens otherwise and when the fetch throws
ClientReceive(a, fetchThrows) ==
  /\ authReq[a].pc = "answered"
  /\ clientTokens' = IF ~fetchThrows /\ authReq[a].status = 200
                       THEN authReq[a].issued
                       ELSE NoToken
  /\ authReq' = [authReq EXCEPT ![a] = NoAttempt]
  /\ UNCHANGED <<refreshToken, nextTokId, authResp>>
  /\ AuthFrame

ClientNext ==
  \/ \E f \in BOOLEAN : nextTokId <= MaxTokIds /\ ClientLogin(f)
  \/ \E a \in RefreshCalls : ClientRefresh(a)
  \/ \E a \in RefreshCalls : RefreshStart(a)
  \/ \E a \in RefreshCalls, f \in BOOLEAN : RefreshDelete(a, f)
  \/ \E a \in RefreshCalls, f \in BOOLEAN :
       (f \/ nextTokId <= MaxTokIds) /\ RefreshCreate(a, f)
  \/ \E a \in RefreshCalls, f \in BOOLEAN : ClientReceive(a, f)
  \/ Tick

SpecClient == InitSocket /\ [][ClientNext]_vars

\* the client holds a pair that a refresh issued after call a was sent
NewlyStored(a) ==
  /\ clientTokens # NoToken
  /\ clientTokens # authReq[a].token
  /\ clientTokens \in StoredTokens

\* C29: client-side token refresh is race-free. When the answer of a refresh
\* call arrives, a success stores the pair it issued, and a failure (the token
\* had been rotated by a concurrent call) leaves a newly stored pair in place.
C29_ClientRefreshRaceFree ==
  [][\A a \in RefreshCalls :
       ClientReceive(a, FALSE) =>
         IF authReq[a].status = 200
           THEN clientTokens' = authReq[a].issued
           ELSE NewlyStored(a) => clientTokens' = clientTokens]_vars

\* ---------------------------------------------------------------------------
\* Rejoining a workspace after removal
\* ---------------------------------------------------------------------------

RejoinNext ==
  \/ \E r \in Slots, u \in Users, w \in InviteTargets : JoinStart(r, u, w)
  \/ \E r \in Slots, f \in BOOLEAN, g \in BOOLEAN : JoinCommit(r, f, g)
  \/ \E a \in Users, w \in Workspaces, u \in Users : RemoveMember(a, w, u)

SpecRejoin == InitSocket /\ [][RejoinNext]_vars

\* C30: a user removed from a workspace can rejoin it with the invite code. A
\* join of a user who holds no WorkspaceMember row of the workspace, first
\* join or join after a removal, is answered 200 when the store does not fail,
\* and leaves the user with a WorkspaceMember row.
C30_RemovedUserRejoins ==
  [][\A r \in Slots :
       LET u == joinReq[r].user
           w == joinReq[r].workspaceId IN
         (JoinCommit(r, FALSE, FALSE) /\ ~WsRow(u, w)) =>
           /\ joinResp'.status = 200
           /\ \E m \in workspaceMember' : m.userId = u /\ m.workspaceId = w]_vars

====
